---- MODULE Spec2Model ----
(***************************************************************************)
(* A model of the apm-hub log aggregation core: route matching             *)
(* (api/logs: SearchRoute.Match, Routes.MatchRoute), search parameter      *)
(* normalisation (SearchParams.SetDefaults, GetStart, GetEnd, GetStartISO),*)
(* the OpenSearch adapter's over-fetch pagination (Search, getNextPage,    *)
(* getResultsFromHits) and message timestamp extraction (Result.Process).  *)
(*                                                                         *)
(* Text that the code inspects character by character (ids, label values,  *)
(* log messages) is a sequence of one-character strings; text that is only *)
(* compared or looked up (types, label keys, start/end expressions) is a   *)
(* TLA+ string.  Instants and durations are whole hours.                   *)
(***************************************************************************)
EXTENDS Integers, Sequences, FiniteSets, TLC

VARIABLES
    routes,     \* Routes: the routing rules of one backend, in configured order
    q,          \* the SearchParams value the operations work on
    ret,        \* the value returned by the last Match / MatchRoute call
    q0,         \* q as it was constructed (before any SetDefaults)
    calls,      \* number of SetDefaults / accessor calls made on q
    now,        \* the wall clock read by time.Now()
    got,        \* the value returned by the last GetStart / GetEnd / GetStartISO
    first,      \* per bound: the first non-nil instant a GetStart / GetEnd returned
    nowReads,   \* per bound: how often GetStart / GetEnd on q read the clock
    stream,     \* the rows held by the OpenSearch index, in sort order
    result,     \* outcome of the last OpenSearchBackend.Search
    hits,       \* r.Hits.Hits of the last response
    delivered,  \* ids of the rows handed to the caller so far, page after page
    pc,         \* position of the paging caller
    r,          \* the Result value Process works on
    r0,         \* r as it was before Process
    source,     \* hit.Source handed to extractLabelsFromSource
    exclusions, \* t.fields.Exclusions of the adapter
    emitted,    \* the label map extractLabelsFromSource returned
    adapter,    \* which structured-store adapter answers: its package name
    body,       \* the decoded JSON document of the backend's response
    answer,     \* what the adapter's Search returned for body
    parts,      \* the per-backend SearchResults, in candidate order
    merged,     \* the SearchResults the parts are appended to
    appended,   \* how many of the parts have been appended so far
    heap,       \* backing arrays of []SearchBackend slices, by address
    GlobalBackends, \* logs.GlobalBackends: a slice header (ptr, len)
    configs,    \* Spec.Backends of each APMHubConfig object
    adapters,   \* how many adapter objects have been constructed so far
    events,     \* number of reconcile requests handled so far
    rc,         \* locals of the Reconcile call in progress
    rd,         \* locals of the query dispatch in progress
    past,       \* every content the registry has had so far
    searchConfig,   \* the SearchConfig read from the config file
    loaded      \* what LoadBackendsFromConfig returned

\* the variables of the routing, parameter, paging and processing parts
coreVars == <<routes, q, ret, q0, calls, now, got, first, nowReads,
              stream, result, hits, delivered, r, r0>>

adapterVars == <<source, exclusions, emitted, adapter, body, answer>>

routerVars == <<parts, merged, appended>>

registryVars == <<heap, GlobalBackends, configs, adapters, events, rc, rd,
                  past, searchConfig, loaded>>

vars == <<coreVars, pc, adapterVars, routerVars, registryVars>>

----------------------------------------------------------------------------
(* Bounds *)

MaxIdLen == 2       \* longest id / idPrefix
MaxValLen == 3      \* longest configured label value list
MaxRoutes == 3      \* longest rule list

----------------------------------------------------------------------------
(* Generic helpers *)

\* all sequences over S of length at most n
SeqsUpTo(S, n) == UNION {[1..k -> S] : k \in 0..n}

EmptyMap == [k \in {} |-> <<>>]

\* a nil *time.Time; a resolved instant t is <<t>>
Nil == <<>>

\* strings.HasPrefix(s, prefix)
HasPrefix(s, prefix) ==
    /\ Len(s) >= Len(prefix)
    /\ SubSeq(s, 1, Len(prefix)) = prefix

\* strings.Index(s, c) for a one-character separator: first position, 0 if none
IndexOf(s, c) ==
    IF \E i \in 1..Len(s) : s[i] = c
    THEN CHOOSE i \in 1..Len(s) : s[i] = c /\ \A j \in 1..(i-1) : s[j] # c
    ELSE 0

\* strings.Split(s, sep): the pieces between separators; never empty
RECURSIVE Split(_, _)
Split(s, sep) ==
    LET i == IndexOf(s, sep) IN
    IF i = 0 THEN <<s>>
    ELSE <<SubSeq(s, 1, i-1)>> \o Split(SubSeq(s, i+1, Len(s)), sep)

----------------------------------------------------------------------------
(* Route matching *)

\* collections.MatchItems(item, items...) on plain values: item is one of items
MatchItems(item, items) == \E i \in 1..Len(items) : items[i] = item

\* the label loop of Match with the missing-key check dropped
MatchSkipMissing(t, p) ==
    IF t.Type # "" /\ t.Type # p.Type THEN FALSE
    ELSE IF t.IdPrefix # <<>> /\ ~HasPrefix(p.Id, t.IdPrefix) THEN FALSE
    ELSE \A k \in DOMAIN t.Labels :
            k \in DOMAIN p.Labels =>
                MatchItems(p.Labels[k], Split(t.Labels[k], ","))

\* Match with the empty-type wildcard dropped
MatchNoWildcard(t, p) ==
    IF t.Type # p.Type THEN FALSE
    ELSE IF t.IdPrefix # <<>> /\ ~HasPrefix(p.Id, t.IdPrefix) THEN FALSE
    ELSE \A k \in DOMAIN t.Labels :
            /\ k \in DOMAIN p.Labels
            /\ MatchItems(p.Labels[k], Split(t.Labels[k], ","))

\* func (t *SearchRoute) Match(q *SearchParams) bool
Match(t, p) ==
    IF t.Type # "" /\ t.Type # p.Type THEN FALSE
    ELSE IF t.IdPrefix # <<>> /\ ~HasPrefix(p.Id, t.IdPrefix) THEN FALSE
    ELSE \A k \in DOMAIN t.Labels :
            /\ k \in DOMAIN p.Labels
            /\ MatchItems(p.Labels[k], Split(t.Labels[k], ","))

\* MatchRoute that keeps scanning and reports the last matching rule
RECURSIVE MatchRouteLast(_, _)
MatchRouteLast(t, p) ==
    IF t = <<>> THEN [match |-> FALSE, isAdditive |-> FALSE]
    ELSE LET rest == MatchRouteLast(Tail(t), p) IN
         IF rest.match THEN rest
         ELSE IF Match(Head(t), p)
              THEN [match |-> TRUE, isAdditive |-> Head(t).IsAdditive]
              ELSE rest

\* func (t Routes) MatchRoute(q *SearchParams) (match bool, isAdditive bool)
RECURSIVE MatchRoute(_, _)
MatchRoute(t, p) ==
    IF t = <<>> THEN [match |-> FALSE, isAdditive |-> FALSE]
    ELSE IF Match(Head(t), p)
         THEN [match |-> TRUE, isAdditive |-> Head(t).IsAdditive]
         ELSE MatchRoute(Tail(t), p)

----------------------------------------------------------------------------
(* Search parameters: defaults and time-range resolution *)

MaxCalls == 2       \* SetDefaults calls made on one value
MaxClock == 2       \* hours the clock advances while a value is in use

DefaultLimit == 50
DefaultLimitPerItem == 100
DefaultLimitBytesPerItem == 100 * 1024

\* a SearchParams value as constructed by a caller (start, end: unresolved)
NewParams(limit, page, labels, start, end, type, id, perItem, bytesPerItem) ==
    [Limit |-> limit, LimitBytes |-> 0, Page |-> page, Labels |-> labels,
     Query |-> "", Start |-> start, End |-> end, Type |-> type, Id |-> id,
     LimitPerItem |-> perItem, LimitBytesPerItem |-> bytesPerItem,
     start |-> Nil, end |-> Nil]

ZeroParams == NewParams(0, "", EmptyMap, "", "", "", <<>>, 0, 0)

\* SetDefaults with the per-item limits defaulted like Limit (when <= 0)
SetDefaultsNonPositive(p) ==
    LET a == IF p.Start = "" THEN [p EXCEPT !.Start = "1h"] ELSE p
        b == IF a.LimitPerItem <= 0
             THEN [a EXCEPT !.LimitPerItem = DefaultLimitPerItem] ELSE a
        c == IF b.Limit <= 0 THEN [b EXCEPT !.Limit = DefaultLimit] ELSE b
    IN  IF c.LimitBytesPerItem <= 0
        THEN [c EXCEPT !.LimitBytesPerItem = DefaultLimitBytesPerItem] ELSE c

\* func (t *SearchParams) SetDefaults()
SetDefaults(p) ==
    LET a == IF p.Start = "" THEN [p EXCEPT !.Start = "1h"] ELSE p
        b == IF a.LimitPerItem = 0
             THEN [a EXCEPT !.LimitPerItem = DefaultLimitPerItem] ELSE a
        c == IF b.Limit <= 0 THEN [b EXCEPT !.Limit = DefaultLimit] ELSE b
    IN  IF c.LimitBytesPerItem = 0
        THEN [c EXCEPT !.LimitBytesPerItem = DefaultLimitBytesPerItem] ELSE c

\* Instants are hours since 2024-01-01T00:00:00Z; durations are hours.

\* durationUtil.ParseDuration on the age expressions used here; "" and
\* anything that is not an age is an error
ParseDuration(s) ==
    CASE s = "1h" -> [ok |-> TRUE, val |-> 1]
      [] s = "2h" -> [ok |-> TRUE, val |-> 2]
      [] s = "1d" -> [ok |-> TRUE, val |-> 24]
      [] OTHER    -> [ok |-> FALSE, val |-> 0]

\* time.Parse(time.RFC3339, s) on the timestamps used here
ParseTime(s) ==
    CASE s = "2024-01-01T00:00:00Z" -> [ok |-> TRUE, val |-> 0]
      [] s = "2024-01-01T05:00:00Z" -> [ok |-> TRUE, val |-> 5]
      [] OTHER                      -> [ok |-> FALSE, val |-> 0]

\* the resolution shared by GetStart and GetEnd: cached instant, else an age
\* before now, else an RFC3339 instant, else nil.  read: time.Now() was called
Resolve(cached, expr, clock) ==
    IF cached # Nil THEN [val |-> cached, read |-> FALSE]
    ELSE IF ParseDuration(expr).ok
         THEN [val |-> <<clock - ParseDuration(expr).val>>, read |-> TRUE]
    ELSE IF ParseTime(expr).ok
         THEN [val |-> <<ParseTime(expr).val>>, read |-> FALSE]
    ELSE [val |-> Nil, read |-> FALSE]

\* GetStart that resolves on every call and never stores the instant
GetStartNoCache(p, clock) ==
    LET res == Resolve(Nil, p.Start, clock)
    IN  [p |-> p, val |-> res.val, read |-> res.read]

\* GetStart that resolves an age to now + age
GetStartAhead(p, clock) ==
    LET res == Resolve(p.start, p.Start, clock)
        v == IF res.read THEN <<clock + ParseDuration(p.Start).val>> ELSE res.val
    IN  [p |-> [p EXCEPT !.start = v], val |-> v, read |-> res.read]

\* func (p *SearchParams) GetStart() *time.Time
GetStart(p, clock) ==
    LET res == Resolve(p.start, p.Start, clock)
    IN  [p |-> [p EXCEPT !.start = res.val], val |-> res.val, read |-> res.read]

\* func (p *SearchParams) GetEnd() *time.Time
GetEnd(p, clock) ==
    LET res == Resolve(p.end, p.End, clock)
    IN  [p |-> [p EXCEPT !.end = res.val], val |-> res.val, read |-> res.read]

TwoDigits(n) == IF n < 10 THEN "0" \o ToString(n) ELSE ToString(n)

\* t.UTC().Format("2006-01-02T15:04:05.000Z") for the days around the epoch
FormatISO(t) ==
    LET d == t \div 24
        date == CASE d = -2 -> "2023-12-30"
                  [] d = -1 -> "2023-12-31"
                  [] d = 0  -> "2024-01-01"
                  [] d = 1  -> "2024-01-02"
    IN  date \o "T" \o TwoDigits(t % 24) \o ":00:00.000Z"

\* func (p SearchParams) GetStartISO() string: the receiver is a copy of the
\* caller's value, so the instant GetStart stores is stored on the copy
GetStartISO(p, clock) ==
    LET res == GetStart(p, clock)
    IN  [p |-> p,
         val |-> IF res.val = Nil THEN "" ELSE FormatISO(res.val[1]),
         read |-> res.read]

----------------------------------------------------------------------------
(* OpenSearch adapter: normalisation and over-fetch pagination *)

MaxRows == 4        \* most rows held by the index
MaxLimit == 2       \* largest limit a caller asks for

\* decoded JSON values (any): tagged so that kinds never compare
Str(s) == [t |-> "string", v |-> s]
Num(n) == [t |-> "number", v |-> n]
Arr(a) == [t |-> "array", v |-> a]
Obj(m) == [t |-> "object", v |-> m]

\* t.fields of the adapter (ElasticSearchFields of its configuration)
Fields == [Message |-> "message", Timestamp |-> "@timestamp",
           Exclusions |-> <<"secret">>]

\* a JSON null, and a key a decoded object does not have
Null == [t |-> "null", v |-> <<>>]

\* m[k] of a decoded object: the zero any (nil) for a key it does not have
Get(m, k) == IF k \in DOMAIN m THEN m[k] ELSE Null

\* the object keys that occur in documents, in the byte order json.Marshal
\* writes the keys of a map in
KeyOrder == <<"@timestamp", "_id", "_index", "_source", "a", "b", "hits",
              "k", "level", "message", "secret", "sort", "tags", "total",
              "value">>

\* json.Marshal of a decoded value
RECURSIVE Marshal(_)
Marshal(val) ==
    CASE val.t = "string" -> "\"" \o val.v \o "\""
      [] val.t = "number" -> ToString(val.v)
      [] val.t = "null"   -> "null"
      [] val.t = "array"  ->
            LET RECURSIVE Join(_)
                Join(a) == IF a = <<>> THEN ""
                           ELSE IF Len(a) = 1 THEN Marshal(a[1])
                           ELSE Marshal(a[1]) \o "," \o Join(Tail(a))
            IN  "[" \o Join(val.v) \o "]"
      [] val.t = "object" ->
            LET In(k) == k \in DOMAIN val.v
                keys  == SelectSeq(KeyOrder, In)
                RECURSIVE JoinKeys(_)
                JoinKeys(ks) ==
                    IF ks = <<>> THEN ""
                    ELSE "\"" \o ks[1] \o "\":" \o Marshal(val.v[ks[1]])
                         \o (IF Len(ks) = 1 THEN "" ELSE "," \o JoinKeys(Tail(ks)))
            IN  "{" \o JoinKeys(keys) \o "}"

\* func stringify(val any) (string, error): strings as they are, the rest as
\* JSON text (marshalling a decoded value cannot fail)
stringify(val) == IF val.t = "string" THEN val.v ELSE Marshal(val)

\* collections.Contains(fields, k)
Contains(list, k) == \E i \in 1..Len(list) : list[i] = k

\* a decoded array seen as a map from its indexes "0", "1", ...
ByIndex(a) ==
    [k \in {ToString(i - 1) : i \in 1..Len(a)} |->
        a[CHOOSE i \in 1..Len(a) : ToString(i - 1) = k]]

\* flatten.Flatten(src, "", flatten.DotStyle) as <<compound key, leaf>> pairs:
\* objects are descended by key and arrays by index, scalars are the leaves
RECURSIVE FlattenPairs(_, _)
FlattenPairs(m, prefix) ==
    UNION { CASE m[k].t = "object" ->
                    FlattenPairs(m[k].v, prefix \o k \o ".")
              [] m[k].t = "array" ->
                    FlattenPairs(ByIndex(m[k].v), prefix \o k \o ".")
              [] OTHER -> {<<prefix \o k, m[k]>>} : k \in DOMAIN m }

\* func (t *OpenSearchBackend) extractLabelsFromSource(src, fields)
extractLabelsFromSource(src, fields) ==
    LET kept  == {k \in DOMAIN src :
                    ~(k = Fields.Message \/ k = Fields.Timestamp
                      \/ Contains(fields, k))}
        sourceAfterExclusion == [k \in kept |-> src[k]]
        pairs == FlattenPairs(sourceAfterExclusion, "")
    IN  [k \in {pr[1] : pr \in pairs} |->
            stringify((CHOOSE pr \in pairs : pr[1] = k)[2])]

\* the loop of getResultsFromHits leaving at the first row without the
\* message field instead of going on to the next row
RECURSIVE ResultsOfStop(_)
ResultsOfStop(rows) ==
    IF rows = <<>> THEN <<>>
    ELSE LET row == Head(rows) IN
         IF Fields.Message \notin DOMAIN row.Source THEN <<>>
         ELSE <<[Id      |-> row.ID,
                 Message |-> stringify(row.Source[Fields.Message]),
                 Time    |-> IF Fields.Timestamp \in DOMAIN row.Source
                                /\ row.Source[Fields.Timestamp].t = "string"
                             THEN row.Source[Fields.Timestamp].v ELSE "",
                 Labels  |-> extractLabelsFromSource(row.Source,
                                                     Fields.Exclusions)]>>
              \o ResultsOfStop(Tail(rows))

\* the loop of getResultsFromHits: one Result per row that has the message
\* field, in row order
RECURSIVE ResultsOf(_)
ResultsOf(rows) ==
    IF rows = <<>> THEN <<>>
    ELSE LET row == Head(rows) IN
         IF Fields.Message \notin DOMAIN row.Source THEN ResultsOf(Tail(rows))
         ELSE <<[Id      |-> row.ID,
                 Message |-> stringify(row.Source[Fields.Message]),
                 Time    |-> IF Fields.Timestamp \in DOMAIN row.Source
                                /\ row.Source[Fields.Timestamp].t = "string"
                             THEN row.Source[Fields.Timestamp].v ELSE "",
                 Labels  |-> extractLabelsFromSource(row.Source,
                                                     Fields.Exclusions)]>>
              \o ResultsOf(Tail(rows))

\* getResultsFromHits that cuts one row too many
getResultsFromHitsShort(requestedRowsCount, rows) ==
    IF Len(rows) >= requestedRowsCount
    THEN IF requestedRowsCount < 1
         THEN [panic |-> TRUE, val |-> <<>>]
         ELSE [panic |-> FALSE,
               val |-> ResultsOf(SubSeq(rows, 1, requestedRowsCount - 1))]
    ELSE [panic |-> FALSE, val |-> ResultsOf(rows)]

\* func (t *OpenSearchBackend) getResultsFromHits(requestedRowsCount, rows);
\* rows[:requestedRowsCount] with a negative bound is a run-time panic
getResultsFromHits(requestedRowsCount, rows) ==
    IF Len(rows) > requestedRowsCount
    THEN IF requestedRowsCount < 0
         THEN [panic |-> TRUE, val |-> <<>>]
         ELSE [panic |-> FALSE,
               val |-> ResultsOf(SubSeq(rows, 1, requestedRowsCount))]
    ELSE [panic |-> FALSE, val |-> ResultsOf(rows)]

\* getNextPage that takes the cursor from the last row fetched
getNextPageLastRow(requestedRowsCount, rows) ==
    IF Len(rows) = 0 THEN [panic |-> FALSE, val |-> ""]
    ELSE IF requestedRowsCount >= Len(rows) THEN [panic |-> FALSE, val |-> ""]
    ELSE [panic |-> FALSE, val |-> stringify(rows[Len(rows)].Sort)]

\* getNextPage that reports a next page whenever rows came back
getNextPageAlways(requestedRowsCount, rows) ==
    IF Len(rows) = 0 THEN [panic |-> FALSE, val |-> ""]
    ELSE IF Len(rows) = 1 THEN [panic |-> FALSE, val |-> stringify(rows[1].Sort)]
    ELSE [panic |-> FALSE, val |-> stringify(rows[Len(rows) - 1].Sort)]

\* func getNextPage(requestedRowsCount int, rows []ElasticsearchHit) string;
\* rows[len(rows)-2] on a single row is a run-time panic
getNextPage(requestedRowsCount, rows) ==
    IF Len(rows) = 0 THEN [panic |-> FALSE, val |-> ""]
    ELSE IF requestedRowsCount >= Len(rows) THEN [panic |-> FALSE, val |-> ""]
    ELSE IF Len(rows) - 2 < 0 THEN [panic |-> TRUE, val |-> ""]
    ELSE [panic |-> FALSE, val |-> stringify(rows[Len(rows) - 1].Sort)]

\* the sort key of the i-th row of the index: strictly increasing
SortOf(i) == Arr(<<Num(2 * i + 1)>>)

\* the index reading a search_after cursor back: the sort key whose JSON
\* text the cursor is
CursorKey(page, rows) ==
    CHOOSE k \in 0..(2 * Len(rows) + 1) : Marshal(Arr(<<Num(k)>>)) = page

\* the index answering a query: the rows strictly after the cursor (all rows
\* for an empty cursor), at most size of them, in sort order
Backend(rows, page, size) ==
    LET After(row) == page = "" \/ row.Sort.v[1].v > CursorKey(page, rows)
        after == SelectSeq(rows, After)
    IN  IF size <= 0 THEN <<>>
        ELSE IF Len(after) > size THEN SubSeq(after, 1, size) ELSE after

\* func (t *OpenSearchBackend) Search(q) on a response that decoded: the
\* outcome for the hits the index returned for size q.Limit+1
SearchOutcome(p, rows, total) ==
    LET res  == getResultsFromHits(p.Limit, rows)
        next == getNextPage(p.Limit, rows)
    IN  IF res.panic \/ next.panic
        THEN [status |-> "panic", Results |-> <<>>, Total |-> 0, NextPage |-> ""]
        ELSE [status |-> "ok", Results |-> res.val, Total |-> total,
              NextPage |-> next.val]

----------------------------------------------------------------------------
(* Decoding the backend's response: both structured-store adapters *)

MaxHits == 2        \* most entries of the hits array of a response

\* a Search that returned zero SearchResults and a nil error
NoAnswer == [err |-> "", Results |-> <<>>, Total |-> 0, NextPage |-> ""]

\* json.Unmarshal into a TotalHitsInfo: a missing or null member keeps the
\* zero value, a member of another JSON kind is an UnmarshalTypeError
DecodeTotal(val) ==
    CASE val.t = "null"   -> [err |-> FALSE, Value |-> 0]
      [] val.t = "object" ->
            LET value == Get(val.v, "value") IN
            CASE value.t = "null"   -> [err |-> FALSE, Value |-> 0]
              [] value.t = "number" -> [err |-> FALSE, Value |-> value.v]
              [] OTHER              -> [err |-> TRUE, Value |-> 0]
      [] OTHER -> [err |-> TRUE, Value |-> 0]

\* json.Unmarshal into an ElasticsearchHit
DecodeHit(val) ==
    IF val.t = "null" THEN [err |-> FALSE, row |-> [ID |-> "", Sort |-> Null,
                                                   Source |-> EmptyMap]]
    ELSE IF val.t # "object" THEN [err |-> TRUE, row |-> <<>>]
    ELSE LET id   == Get(val.v, "_id")
             sort == Get(val.v, "sort")
             src  == Get(val.v, "_source")
         IN  IF \/ id.t \notin {"null", "string"}
                \/ sort.t \notin {"null", "array"}
                \/ src.t \notin {"null", "object"}
             THEN [err |-> TRUE, row |-> <<>>]
             ELSE [err |-> FALSE,
                   row |-> [ID     |-> IF id.t = "string" THEN id.v ELSE "",
                            Sort   |-> sort,
                            Source |-> IF src.t = "object" THEN src.v
                                       ELSE EmptyMap]]

\* json.Unmarshal into a []ElasticsearchHit
DecodeHits(val) ==
    CASE val.t = "null"  -> [err |-> FALSE, rows |-> <<>>]
      [] val.t = "array" ->
            [err  |-> \E i \in 1..Len(val.v) : DecodeHit(val.v[i]).err,
             rows |-> [i \in 1..Len(val.v) |-> DecodeHit(val.v[i]).row]]
      [] OTHER -> [err |-> TRUE, rows |-> <<>>]

\* json.NewDecoder(res.Body).Decode(&r) for r an OpenSearchResponse: err is
\* whether Decode returns an error
Decode(doc) ==
    LET section == Get(doc, "hits") IN
    CASE section.t = "null"   -> [err |-> FALSE, Total |-> 0, Hits |-> <<>>]
      [] section.t = "object" ->
            LET total == DecodeTotal(Get(section.v, "total"))
                rows  == DecodeHits(Get(section.v, "hits"))
            IN  [err |-> total.err \/ rows.err, Total |-> total.Value,
                 Hits |-> rows.rows]
      [] OTHER -> [err |-> TRUE, Total |-> 0, Hits |-> <<>>]

\* func (t *OpenSearchBackend) Search(q) from the decoding of the response on
OpenSearchSearch(p, doc) ==
    LET resp == Decode(doc) IN
    IF resp.err
    THEN [err |-> "error parsing the response body", Results |-> <<>>,
          Total |-> 0, NextPage |-> ""]
    ELSE LET out == SearchOutcome(p, resp.Hits, resp.Total) IN
         [err |-> IF out.status = "panic" THEN "panic" ELSE "",
          Results |-> out.Results, Total |-> out.Total,
          NextPage |-> out.NextPage]

\* elasticsearch: func getTotalResultsCount(hits map[string]any) int
getTotalResultsCount(section) ==
    LET total == Get(section, "total") IN
    IF total.t # "object" THEN 0
    ELSE IF Get(total.v, "value").t # "number" THEN 0
    ELSE Get(total.v, "value").v

\* elasticsearch: func getResultsFromHits(data []any) []logs.Result
RECURSIVE ElasticResultsOf(_)
ElasticResultsOf(data) ==
    IF data = <<>> THEN <<>>
    ELSE LET val == Head(data) IN
         IF val.t # "object" THEN ElasticResultsOf(Tail(data))
         ELSE LET id  == Get(val.v, "_id")
                  idx == Get(val.v, "_index")
                  src == Get(val.v, "_source")
              IN  <<[Id      |-> IF id.t = "string" THEN id.v ELSE "",
                     Message |-> IF src.t = "object" THEN Marshal(src)
                                 ELSE "null",
                     Labels  |-> [k \in {"index"} |->
                                    IF idx.t = "string" THEN idx.v ELSE ""]]>>
                  \o ElasticResultsOf(Tail(data))

\* func (t *ElasticSearchBackend) Search(q) from the decoding of the
\* response on (a JSON object always decodes into a map[string]any)
ElasticSearchSearch(doc) ==
    LET section == Get(doc, "hits") IN
    IF section.t # "object" THEN NoAnswer
    ELSE LET data == Get(section.v, "hits") IN
         IF data.t # "array" THEN NoAnswer
         ELSE [err |-> "", Results |-> ElasticResultsOf(data.v),
               Total |-> getTotalResultsCount(section.v), NextPage |-> ""]

----------------------------------------------------------------------------
(* SearchResults.Append: merging the results of several backends *)

MaxParts == 2       \* most backends whose results are merged

\* func (r *SearchResults) Append(other *SearchResults)
SearchResultsAppend(res, other) ==
    [Results  |-> res.Results \o other.Results,
     Total    |-> res.Total + other.Total,
     NextPage |-> other.NextPage]

----------------------------------------------------------------------------
(* The backend registry: GlobalBackends, Reconcile and the removal loop *)

MaxBackends == 2    \* most backends of one APMHubConfig
MaxEvents == 4      \* most reconcile requests handled

\* the zero SearchBackend: what a fresh backing array is filled with
ZeroBackend == [Backend |-> 0, Config |-> ""]

\* cap(s) of a slice header s over the backing arrays h
Cap(h, s) == IF s.ptr = 0 THEN 0 ELSE Len(h[s.ptr])

\* the elements of slice s, first to last
Elems(h, s) == IF s.ptr = 0 THEN <<>> ELSE SubSeq(h[s.ptr], 1, s.len)

\* append(s, x): in place while the capacity lasts, else into a new backing
\* array of twice the capacity; the old array stays as it is
GoAppend(h, s, x) ==
    IF s.len < Cap(h, s)
    THEN [heap  |-> [h EXCEPT ![s.ptr][s.len + 1] = x],
          slice |-> [ptr |-> s.ptr, len |-> s.len + 1]]
    ELSE LET newcap == IF Cap(h, s) = 0 THEN 1 ELSE 2 * Cap(h, s)
             array  == [k \in 1..newcap |->
                          IF k <= s.len THEN h[s.ptr][k]
                          ELSE IF k = s.len + 1 THEN x ELSE ZeroBackend]
         IN  [heap  |-> h \o <<array>>,
              slice |-> [ptr |-> Len(h) + 1, len |-> s.len + 1]]

\* append(s[:i], s[i+1:]...): s[i+1:] with i+1 > len(s), or s[:i] with
\* i > cap(s), is a run-time panic; otherwise the elements after i move one
\* place down in the same backing array, whose last place keeps its value
DeleteAt(h, s, i) ==
    IF i + 1 > s.len \/ i > Cap(h, s)
    THEN [panic |-> TRUE, heap |-> h, slice |-> s]
    ELSE [panic |-> FALSE,
          heap  |-> [h EXCEPT ![s.ptr] =
                        [k \in 1..Len(h[s.ptr]) |->
                            IF k >= i + 1 /\ k < s.len THEN h[s.ptr][k + 1]
                            ELSE h[s.ptr][k]]],
          slice |-> [ptr |-> s.ptr, len |-> s.len - 1]]

\* json.Marshal of a SearchBackend or of a SearchBackendCRD: the
\* configuration members; Backend is tagged json:"-"
MarshalBackend(v) == "{" \o v.Config \o "}"

\* func Hash(v any) (string, error): the hex md5 digest of the JSON text
\* (the texts of the model have digests that differ)
Hash(v) == "md5:" \o MarshalBackend(v)

\* func (b SearchBackendCRD) ToSearchBackend() SearchBackend
ToSearchBackend(b) == [Backend |-> 0, Config |-> b.Config]

\* func AttachSearchAPIToBackend(sb *SearchBackend) error: constructs the
\* adapter (object number id) for the configuration, or fails
AttachSearchAPIToBackend(sb, id) ==
    IF sb.Config = "bad" THEN [err |-> TRUE, sb |-> sb]
    ELSE [err |-> FALSE, sb |-> [sb EXCEPT !.Backend = id]]

\* Reconcile, lines 77-84: the loop over config.Spec.Backends about to
\* start; j is the next backend (from 1)
AddBegin(h, s, built, backends) ==
    [heap |-> h, gbs |-> s, adapters |-> built, j |-> 1,
     status |-> IF backends = <<>> THEN "done" ELSE "run"]

\* one iteration of that loop
AddIter(F, backends) ==
    LET sb   == ToSearchBackend(backends[F.j])
        att  == AttachSearchAPIToBackend(sb, F.adapters + 1)
        app  == GoAppend(F.heap, F.gbs, att.sb)
        last == F.j = Len(backends)
    IN  IF att.err
        THEN [F EXCEPT !.j = F.j + 1,
                       !.status = IF last THEN "done" ELSE "run"]
        ELSE [heap |-> app.heap, gbs |-> app.slice,
              adapters |-> F.adapters + 1, j |-> F.j + 1,
              status |-> IF last THEN "done" ELSE "run"]

RECURSIVE AddRun(_, _)
AddRun(F, backends) ==
    IF F.status # "run" THEN F ELSE AddRun(AddIter(F, backends), backends)

\* removeBackendFromGlobalBackends about to start: range takes the slice
\* header once (array arr, n elements); i is the index into it (from 0), gb
\* the copy of element i, j the next entry of backends (from 1)
RemoveBegin(h, s, backends) ==
    IF s.len = 0 \/ backends = <<>>
    THEN [heap |-> h, gbs |-> s, status |-> "done", i |-> 0, j |-> 1,
          n |-> s.len, arr |-> s.ptr, gb |-> ZeroBackend]
    ELSE [heap |-> h, gbs |-> s, status |-> "run", i |-> 0, j |-> 1,
          n |-> s.len, arr |-> s.ptr, gb |-> h[s.ptr][1]]

\* one iteration of the inner loop of removeBackendFromGlobalBackends, and
\* the step to the next iteration: continue goes on with the next entry of
\* backends for the same gb
RemoveIter(F, backends) ==
    LET match == Hash(F.gb) = Hash(backends[F.j])
        del   == IF match THEN DeleteAt(F.heap, F.gbs, F.i)
                 ELSE [panic |-> FALSE, heap |-> F.heap, slice |-> F.gbs]
    IN  IF del.panic THEN [F EXCEPT !.status = "panic"]
        ELSE IF F.j < Len(backends)
        THEN [F EXCEPT !.heap = del.heap, !.gbs = del.slice, !.j = F.j + 1]
        ELSE IF F.i + 1 < F.n
        THEN [F EXCEPT !.heap = del.heap, !.gbs = del.slice,
                       !.i = F.i + 1, !.j = 1,
                       !.gb = del.heap[F.arr][F.i + 2]]
        ELSE [F EXCEPT !.heap = del.heap, !.gbs = del.slice,
                       !.status = "done"]

RECURSIVE RemoveRun(_, _)
RemoveRun(F, backends) ==
    IF F.status # "run" THEN F
    ELSE RemoveRun(RemoveIter(F, backends), backends)

\* func removeBackendFromGlobalBackends(backends []logsAPI.SearchBackendCRD)
removeBackendFromGlobalBackends(h, s, backends) ==
    RemoveRun(RemoveBegin(h, s, backends), backends)

----------------------------------------------------------------------------
(* LoadBackendsFromConfig: constructing the backends of the config file *)

MaxEntries == 2     \* most entries under backends: in the config file

\* filepath.IsAbs(p)
IsAbs(p) == Len(p) > 0 /\ SubSeq(p, 1, 1) = "/"

\* filepath.Join(filepath.Dir(searchConfig.Path), p) for the config file
\* conf/apm.yaml and a relative p
JoinConfigDir(p) == "conf/" \o p

\* func getElasticConfig(conf) (*v8.Config, error): whether it returns an
\* error
getElasticConfigFails(conf) ==
    \/ conf.Address # "" /\ conf.CloudID # ""
    \/ conf.Address = "" /\ conf.CloudID = ""

\* the error LoadBackendsFromConfig meets in constructing the adapters of
\* one entry, "" if none; a nil pointer member is <<>>
EntryError(backend) ==
    IF backend.Kubernetes # <<>> /\ ~backend.Kubernetes[1].reachable
    THEN "error getting the kube client"
    ELSE IF backend.ElasticSearch = <<>> THEN ""
    ELSE LET conf == backend.ElasticSearch[1] IN
         IF getElasticConfigFails(conf)
         THEN "error getting the elastic search config"
         ELSE IF conf.Address = "::"
         THEN "error creating the elastic search client"
         ELSE IF conf.Ping = "error"
         THEN "error pinging the elastic search client"
         ELSE IF conf.Ping # "200" THEN "got ping response"
         ELSE IF conf.Query = "{{"
         THEN "error creating the elastic search backend"
         ELSE ""

\* the SearchBackend values one entry appends when nothing fails: one per
\* kind of backend the entry configures, each with its adapter attached;
\* relative file paths are rewritten in the array every copy shares
EntryBackends(backend) ==
    LET files == [i \in 1..Len(backend.Files) |->
                    IF IsAbs(backend.Files[i]) THEN backend.Files[i]
                    ELSE JoinConfigDir(backend.Files[i])]
        with(api) == [backend EXCEPT !.Backend = api, !.Files = files]
    IN  (IF backend.Kubernetes # <<>> THEN <<with("KubernetesSearch")>>
         ELSE <<>>)
        \o (IF backend.Files # <<>> THEN <<with("FileSearch")>> ELSE <<>>)
        \o (IF backend.ElasticSearch # <<>>
            THEN <<with("ElasticSearchBackend")>> ELSE <<>>)

\* func LoadBackendsFromConfig(kommonsClient, searchConfig): the loop from
\* entry k on, with the backends appended so far
RECURSIVE LoadFrom(_, _, _)
LoadFrom(entries, k, backends) ==
    IF k > Len(entries) THEN [backends |-> backends, err |-> ""]
    ELSE IF EntryError(entries[k]) # ""
    THEN [backends |-> <<>>, err |-> EntryError(entries[k])]
    ELSE LoadFrom(entries, k + 1, backends \o EntryBackends(entries[k]))

LoadBackendsFromConfig(entries) == LoadFrom(entries, 1, <<>>)

----------------------------------------------------------------------------
(* Result.Process: timestamp extraction from the message *)

MaxPieces == 5      \* most pieces a message is put together from

IsSpace(c) == c \in {" ", "\t"}

Digits == {"0", "1", "2", "3", "4", "5", "6", "7", "8", "9"}

DigitVal(c) == CHOOSE n \in 0..9 : ToString(n) = c

\* the number written by the two digits at positions i, i+1
TwoDigitVal(s, i) == 10 * DigitVal(s[i]) + DigitVal(s[i+1])

\* whether time.Parse(time.RFC3339, s) succeeds, for text of the UTC form
\* YYYY-MM-DDThh:mm:ssZ; any other text is rejected
IsRFC3339(s) ==
    /\ Len(s) = 20
    /\ \A i \in {1, 2, 3, 4, 6, 7, 9, 10, 12, 13, 15, 16, 18, 19} : s[i] \in Digits
    /\ s[5] = "-" /\ s[8] = "-" /\ s[11] = "T"
    /\ s[14] = ":" /\ s[17] = ":" /\ s[20] = "Z"
    /\ LET year  == 100 * TwoDigitVal(s, 1) + TwoDigitVal(s, 3)
           month == TwoDigitVal(s, 6)
           day   == TwoDigitVal(s, 9)
           leap  == year % 4 = 0 /\ (year % 100 # 0 \/ year % 400 = 0)
           days  == IF month = 2 THEN (IF leap THEN 29 ELSE 28)
                    ELSE IF month \in {4, 6, 9, 11} THEN 30 ELSE 31
       IN  /\ month \in 1..12
           /\ day \in 1..days
           /\ TwoDigitVal(s, 12) <= 23
           /\ TwoDigitVal(s, 15) <= 59
           /\ TwoDigitVal(s, 18) <= 59

\* bufio.ScanWords on the message: the first whitespace-delimited word
\* (leading whitespace skipped); ok is what the first scanner.Scan() returns
FirstWord(s) ==
    IF \A i \in 1..Len(s) : IsSpace(s[i]) THEN [ok |-> FALSE, text |-> <<>>]
    ELSE LET b == CHOOSE i \in 1..Len(s) :
                    ~IsSpace(s[i]) /\ \A j \in 1..(i-1) : IsSpace(s[j])
             e == CHOOSE i \in b..Len(s) :
                    /\ \A j \in b..i : ~IsSpace(s[j])
                    /\ (i = Len(s) \/ IsSpace(s[i+1]))
         IN  [ok |-> TRUE, text |-> SubSeq(s, b, e)]

\* strings.ReplaceAll(s, old, "") for non-empty old: every non-overlapping
\* occurrence, found left to right, is removed
RECURSIVE ReplaceAll(_, _)
ReplaceAll(s, old) ==
    IF Len(s) < Len(old) THEN s
    ELSE IF HasPrefix(s, old)
         THEN ReplaceAll(SubSeq(s, Len(old) + 1, Len(s)), old)
         ELSE <<Head(s)>> \o ReplaceAll(Tail(s), old)

\* strings.Replace(s, old, "", 1): only the first occurrence is removed
RECURSIVE ReplaceFirst(_, _)
ReplaceFirst(s, old) ==
    IF Len(s) < Len(old) THEN s
    ELSE IF HasPrefix(s, old) THEN SubSeq(s, Len(old) + 1, Len(s))
         ELSE <<Head(s)>> \o ReplaceFirst(Tail(s), old)

\* strings.TrimSpace(s)
TrimSpace(s) ==
    IF \A i \in 1..Len(s) : IsSpace(s[i]) THEN <<>>
    ELSE LET b == CHOOSE i \in 1..Len(s) :
                    ~IsSpace(s[i]) /\ \A j \in 1..(i-1) : IsSpace(s[j])
             e == CHOOSE i \in 1..Len(s) :
                    ~IsSpace(s[i]) /\ \A j \in (i+1)..Len(s) : IsSpace(s[j])
         IN  SubSeq(s, b, e)

\* Process that removes only the first occurrence of the timestamp
ProcessFirstOnly(res) ==
    LET word == FirstWord(res.Message)
        a == IF word.ok /\ IsRFC3339(word.text)
             THEN [res EXCEPT !.Time = word.text,
                              !.Message = ReplaceFirst(res.Message, word.text)]
             ELSE res
    IN  [a EXCEPT !.Message = TrimSpace(a.Message)]

\* Process that promotes the first word whether or not it is a timestamp
ProcessAnyWord(res) ==
    LET word == FirstWord(res.Message)
        a == IF word.ok
             THEN [res EXCEPT !.Time = word.text,
                              !.Message = ReplaceAll(res.Message, word.text)]
             ELSE res
    IN  [a EXCEPT !.Message = TrimSpace(a.Message)]

\* func (r Result) Process() Result
Process(res) ==
    LET word == FirstWord(res.Message)
        a == IF word.ok /\ IsRFC3339(word.text)
             THEN [res EXCEPT !.Time = word.text,
                              !.Message = ReplaceAll(res.Message, word.text)]
             ELSE res
    IN  [a EXCEPT !.Message = TrimSpace(a.Message)]

----------------------------------------------------------------------------
(* State machine *)

NoRet == [op |-> "none", rule |-> 0, match |-> FALSE, isAdditive |-> FALSE]

NoGot == [op |-> "none", val |-> Nil, at |-> 0, fresh |-> FALSE,
          expr |-> "", defaulted |-> FALSE]

NoResult == [status |-> "none", Results |-> <<>>, Total |-> 0, NextPage |-> ""]

ZeroResult == [Id |-> "", Time |-> <<>>, Message |-> <<>>, Labels |-> EmptyMap]

RouteIdle == routes = <<>> /\ ret = NoRet

ParamsIdle ==
    /\ calls = 0 /\ now = 0 /\ got = NoGot
    /\ first = [start |-> Nil, end |-> Nil]
    /\ nowReads = [start |-> 0, end |-> 0]

SearchIdle == stream = <<>> /\ result = NoResult /\ hits = <<>> /\ delivered = <<>>

ProcessIdle == r = ZeroResult /\ r0 = ZeroResult

AdapterIdle ==
    /\ source = EmptyMap /\ exclusions = <<>> /\ emitted = EmptyMap
    /\ adapter = "" /\ body = EmptyMap /\ answer = NoAnswer

ZeroSearchResults == [Results |-> <<>>, Total |-> 0, NextPage |-> ""]

RouterIdle == parts = <<>> /\ merged = ZeroSearchResults /\ appended = 0

\* a nil slice: no backing array, length 0
NilSlice == [ptr |-> 0, len |-> 0]

NoCall == [op |-> "none"]

RegistryIdle ==
    /\ heap = <<>> /\ GlobalBackends = NilSlice
    /\ configs = <<>> /\ adapters = 0 /\ events = 0
    /\ rc = NoCall /\ rd = NoCall /\ past = {}
    /\ searchConfig = <<>> /\ loaded = NoCall

\* the parts of the model a specification does not exercise stay as built
LaterIdle == AdapterIdle /\ RouterIdle /\ RegistryIdle

\* ---- routing ----

Types == {"", "pod", "node"}
IdChars == {"a", "b"}
LabelKeys == {"env", "app"}
RuleVals == SeqsUpTo({"p", "s", ","}, MaxValLen)
QueryVals == {<<>>, <<"p">>, <<"s">>, <<"d">>, <<",">>, <<"p", ",", "s">>}

SearchRoute(type, idPrefix, labels, additive) ==
    [Type |-> type, IdPrefix |-> idPrefix, Labels |-> labels,
     IsAdditive |-> additive]

\* one rule without labels against every type and id
PlainRuleInputs ==
    \E type \in Types, pre \in SeqsUpTo(IdChars, MaxIdLen), add \in BOOLEAN,
       qt \in Types, id \in SeqsUpTo(IdChars, MaxIdLen) :
        /\ routes = <<SearchRoute(type, pre, EmptyMap, add)>>
        /\ q = NewParams(0, "", EmptyMap, "", "", qt, id, 0, 0)

\* one rule with labels against labelled queries (<<"-">>: key not present)
LabelRuleInputs ==
    \E type \in {"", "pod"}, pre \in {<<>>, <<"a">>},
       env \in RuleVals \cup {<<"-">>}, app \in {<<"-">>, <<"p">>},
       qt \in {"pod", "node"}, id \in {<<"a">>, <<"b">>},
       qenv \in QueryVals \cup {<<"-">>}, qapp \in {<<"-">>, <<"p">>, <<"s">>} :
        LET Lab(e, a) ==
                [k \in {x \in LabelKeys : \/ x = "env" /\ e # <<"-">>
                                          \/ x = "app" /\ a # <<"-">>} |->
                    IF k = "env" THEN e ELSE a]
        IN  /\ routes = <<SearchRoute(type, pre, Lab(env, app), FALSE)>>
            /\ q = NewParams(0, "", Lab(qenv, qapp), "", "", qt, id, 0, 0)

\* a list of rules against a few queries
RuleListInputs ==
    LET Small == {SearchRoute(type, <<>>, lab, add) :
                    type \in {"", "pod"},
                    lab \in {EmptyMap, [k \in {"env"} |-> <<"p">>]},
                    add \in BOOLEAN}
    IN  \E list \in SeqsUpTo(Small, MaxRoutes),
           qt \in {"pod", "node"},
           lab \in {EmptyMap, [k \in {"env"} |-> <<"p">>],
                    [k \in {"env"} |-> <<"s">>]} :
            /\ routes = list
            /\ q = NewParams(0, "", lab, "", "", qt, <<>>, 0, 0)

InitRoute ==
    /\ PlainRuleInputs \/ LabelRuleInputs \/ RuleListInputs
    /\ q0 = q /\ ret = NoRet /\ pc = "idle"
    /\ ParamsIdle /\ SearchIdle /\ ProcessIdle /\ LaterIdle

\* a caller evaluates routes[i].Match(q)
CallMatch ==
    /\ \E i \in 1..Len(routes) :
          ret' = [op |-> "Match", rule |-> i, match |-> Match(routes[i], q),
                  isAdditive |-> FALSE]
    /\ UNCHANGED <<routes, q, q0, calls, now, got, first, nowReads,
                   stream, result, hits, delivered, pc, r, r0,
                   adapterVars, routerVars, registryVars>>

\* a caller evaluates routes.MatchRoute(q)
CallMatchRoute ==
    /\ LET m == MatchRoute(routes, q) IN
          ret' = [op |-> "MatchRoute", rule |-> 0, match |-> m.match,
                  isAdditive |-> m.isAdditive]
    /\ UNCHANGED <<routes, q, q0, calls, now, got, first, nowReads,
                   stream, result, hits, delivered, pc, r, r0,
                   adapterVars, routerVars, registryVars>>

NextRoute == CallMatch \/ CallMatchRoute

SpecRoute == InitRoute /\ [][NextRoute]_vars

\* ---- routing: properties ----

\* text s starts with text prefix
StartsWith(s, prefix) == \E n \in 0..Len(s) : SubSeq(s, 1, n) = prefix

\* the values a comma-separated list v configures: its maximal comma-free
\* stretches (empty ones included)
Configured(v) ==
    {SubSeq(v, a, b) : <<a, b>> \in
        {ab \in (1..(Len(v) + 1)) \X (0..Len(v)) :
            /\ ab[1] <= ab[2] + 1
            /\ ab[1] = 1 \/ v[ab[1] - 1] = ","
            /\ ab[2] = Len(v) \/ v[ab[2] + 1] = ","
            /\ \A j \in ab[1]..ab[2] : v[j] # ","}}

TypeAndIdMatch(t, p) ==
    /\ t.Type = "" \/ t.Type = p.Type
    /\ t.IdPrefix = <<>> \/ StartsWith(p.Id, t.IdPrefix)

\* C1: for a rule without labels, Match returns true iff (rule.Type is empty
\* or equals query.Type) and (rule.IdPrefix is empty or query.Id starts with
\* it); a rule with all fields empty matches every query; the result is
\* always a boolean (Match never errors).
C1_MatchTypeAndId ==
    (ret.op = "Match" /\ routes[ret.rule].Labels = EmptyMap) =>
        LET t == routes[ret.rule] IN
        /\ ret.match \in BOOLEAN
        /\ ret.match = TypeAndIdMatch(t, q)
        /\ (t.Type = "" /\ t.IdPrefix = <<>>) => ret.match

C1_Witness ==
    /\ ret.op = "Match" /\ routes[ret.rule].Labels = EmptyMap
    /\ routes[ret.rule].Type = "pod" /\ routes[ret.rule].IdPrefix = <<"a">>
    /\ q.Id = <<"a", "b">> /\ ret.match

C3_FirstMatchWins ==
    ret.op = "MatchRoute" =>
        LET matching == {i \in 1..Len(routes) : Match(routes[i], q)} IN
        IF matching = {}
        THEN ~ret.match /\ ~ret.isAdditive
        ELSE LET i == CHOOSE i \in matching : \A j \in matching : i <= j
             IN  ret.match /\ ret.isAdditive = routes[i].IsAdditive

C3_Witness ==
    /\ ret.op = "MatchRoute" /\ Len(routes) >= 3
    /\ ~Match(routes[1], q)
    /\ Match(routes[2], q) /\ Match(routes[3], q)
    /\ routes[2].IsAdditive /\ ~routes[3].IsAdditive
    /\ ret.match /\ ret.isAdditive

----------------------------------------------------------------------------
\* ---- search parameters ----

StartExprs == {"", "1h", "2h", "1d", "2024-01-01T05:00:00Z", "yesterday"}
EndExprs == {"", "1h", "2024-01-01T00:00:00Z", "soon"}

InitDefaults ==
    /\ \E limit \in (-1..MaxLimit) \cup {DefaultLimit},
          perItem \in {-1, 0, 1, DefaultLimitPerItem},
          bytesPerItem \in {-1, 0, 1, DefaultLimitBytesPerItem},
          start \in {"", "1h", "2h", "2024-01-01T05:00:00Z"} :
            q = NewParams(limit, "", EmptyMap, start, "", "", <<>>,
                          perItem, bytesPerItem)
    /\ q0 = q /\ pc = "idle"
    /\ RouteIdle /\ ParamsIdle /\ SearchIdle /\ ProcessIdle /\ LaterIdle

\* a caller applies q.SetDefaults()
CallSetDefaults ==
    /\ calls < MaxCalls
    /\ q' = SetDefaults(q)
    /\ calls' = calls + 1
    /\ UNCHANGED <<routes, ret, q0, now, got, first, nowReads,
                   stream, result, hits, delivered, pc, r, r0,
                   adapterVars, routerVars, registryVars>>

NextDefaults == CallSetDefaults

SpecDefaults == InitDefaults /\ [][NextDefaults]_vars

InitTime ==
    /\ \E start \in StartExprs, end \in EndExprs :
            q = NewParams(0, "", EmptyMap, start, end, "", <<>>, 0, 0)
    /\ q0 = q /\ pc = "idle"
    /\ RouteIdle /\ ParamsIdle /\ SearchIdle /\ ProcessIdle /\ LaterIdle

\* the clock advances
Tick ==
    /\ now < MaxClock
    /\ now' = now + 1
    /\ UNCHANGED <<routes, q, ret, q0, calls, got, first, nowReads,
                   stream, result, hits, delivered, pc, r, r0,
                   adapterVars, routerVars, registryVars>>

\* a caller evaluates q.GetStart()
CallGetStart ==
    /\ LET res == GetStart(q, now) IN
        /\ q' = res.p
        /\ got' = [op |-> "GetStart", val |-> res.val, at |-> now,
                   fresh |-> (q.start = Nil), expr |-> q.Start,
                   defaulted |-> (calls > 0)]
        /\ first' = IF first.start = Nil THEN [first EXCEPT !.start = res.val]
                    ELSE first
        /\ nowReads' = IF res.read
                       THEN [nowReads EXCEPT !.start = @ + 1] ELSE nowReads
    /\ UNCHANGED <<routes, ret, q0, calls, now,
                   stream, result, hits, delivered, pc, r, r0,
                   adapterVars, routerVars, registryVars>>

\* a caller evaluates q.GetEnd()
CallGetEnd ==
    /\ LET res == GetEnd(q, now) IN
        /\ q' = res.p
        /\ got' = [op |-> "GetEnd", val |-> res.val, at |-> now,
                   fresh |-> (q.end = Nil), expr |-> q.End,
                   defaulted |-> (calls > 0)]
        /\ first' = IF first.end = Nil THEN [first EXCEPT !.end = res.val]
                    ELSE first
        /\ nowReads' = IF res.read
                       THEN [nowReads EXCEPT !.end = @ + 1] ELSE nowReads
    /\ UNCHANGED <<routes, ret, q0, calls, now,
                   stream, result, hits, delivered, pc, r, r0,
                   adapterVars, routerVars, registryVars>>

\* a caller evaluates q.GetStartISO(); the clock read, if any, happens on the
\* copy the method works on
CallGetStartISO ==
    /\ LET res == GetStartISO(q, now) IN
        /\ q' = res.p
        /\ got' = [op |-> "GetStartISO", val |-> res.val, at |-> now,
                   fresh |-> (q.start = Nil), expr |-> q.Start,
                   defaulted |-> (calls > 0)]
    /\ UNCHANGED <<routes, ret, q0, calls, now, first, nowReads,
                   stream, result, hits, delivered, pc, r, r0,
                   adapterVars, routerVars, registryVars>>

NextTime ==
    \/ CallSetDefaults
    \/ CallGetStart
    \/ CallGetEnd
    \/ CallGetStartISO
    \/ Tick

SpecTime == InitTime /\ [][NextTime]_vars

\* ---- search parameters: properties ----

\* what SetDefaults leaves alone
SameButDefaulted(a, b) ==
    [a EXCEPT !.Start = "", !.Limit = 0, !.LimitPerItem = 0,
              !.LimitBytesPerItem = 0]
  = [b EXCEPT !.Start = "", !.Limit = 0, !.LimitPerItem = 0,
              !.LimitBytesPerItem = 0]

DefaultsApplied ==
    /\ q.Start = IF q0.Start = "" THEN "1h" ELSE q0.Start
    /\ q.Limit = IF q0.Limit <= 0 THEN 50 ELSE q0.Limit
    /\ q.LimitPerItem = IF q0.LimitPerItem = 0 THEN 100 ELSE q0.LimitPerItem
    /\ q.LimitBytesPerItem =
            IF q0.LimitBytesPerItem = 0 THEN 102400 ELSE q0.LimitBytesPerItem
    /\ SameButDefaulted(q, q0)

\* C4 as stated: after SetDefaults (once or twice), the defaults are in place
\* for the unset fields, every other field is as before, and Limit,
\* LimitPerItem and LimitBytesPerItem are all positive, for every input.
C4_AsStated ==
    calls >= 1 =>
        /\ DefaultsApplied
        /\ q.Limit >= 1 /\ q.LimitPerItem > 0 /\ q.LimitBytesPerItem > 0

\* C4 amended: after SetDefaults (once or twice), Start is "1h" if it was
\* empty, Limit is 50 if it was <= 0, LimitPerItem is 100 and
\* LimitBytesPerItem is 102400 if they were 0, every other field and every
\* other value is as before (so a second call changes nothing); Limit >= 1
\* always, while LimitPerItem and LimitBytesPerItem are positive only if they
\* were not negative before: a negative value is kept.
C4_Defaults ==
    calls >= 1 =>
        /\ DefaultsApplied
        /\ q.Limit >= 1
        /\ q.LimitPerItem > 0 <=> q0.LimitPerItem >= 0
        /\ q.LimitBytesPerItem > 0 <=> q0.LimitBytesPerItem >= 0

C4_Witness ==
    /\ calls = 2
    /\ q0.Start = "" /\ q0.Limit = -1 /\ q0.LimitPerItem = -1
    /\ q0.LimitBytesPerItem = 0
    /\ q.Start = "1h" /\ q.Limit = 50 /\ q.LimitPerItem = -1
    /\ q.LimitBytesPerItem = 102400

\* C5: once GetStart (GetEnd) has returned an instant for the value, every
\* later GetStart (GetEnd) on it returns that same instant however far the
\* clock has advanced, and the clock is read at most once per bound.
C5_Memoized ==
    /\ (got.op = "GetStart" /\ first.start # Nil) => got.val = first.start
    /\ (got.op = "GetEnd" /\ first.end # Nil) => got.val = first.end
    /\ nowReads.start <= 1 /\ nowReads.end <= 1

C5_Witness ==
    /\ got.op = "GetStart" /\ ~got.fresh /\ got.expr = "1h"
    /\ first.start = <<-1>> /\ got.at = 2 /\ got.val = <<-1>>
    /\ nowReads.start = 1

\* C6 as stated: for a value constructed with an empty Start, the GetStart
\* call that resolves the bound yields the instant one hour before the call.
C6_AsStated ==
    (got.op = "GetStart" /\ got.fresh /\ q0.Start = "") =>
        got.val = <<got.at - 1>>

\* C6 amended: for a value constructed with an empty Start to which
\* SetDefaults has been applied, the GetStart call that resolves the bound
\* yields the instant one hour before the call (without SetDefaults the empty
\* Start resolves to no instant); a relative age resolves to the time of the
\* call minus that age and an RFC3339 timestamp to itself.
C6_StartResolution ==
    (got.op = "GetStart" /\ got.fresh) =>
        /\ (q0.Start = "" /\ got.defaulted) => got.val = <<got.at - 1>>
        /\ (q0.Start = "" /\ ~got.defaulted) => got.val = Nil
        /\ got.expr = "1h" => got.val = <<got.at - 1>>
        /\ got.expr = "2h" => got.val = <<got.at - 2>>
        /\ got.expr = "1d" => got.val = <<got.at - 24>>
        /\ got.expr = "2024-01-01T05:00:00Z" => got.val = <<5>>

C6_Witness ==
    /\ got.op = "GetStart" /\ got.fresh /\ q0.Start = "" /\ got.defaulted
    /\ got.at = 1 /\ got.val = <<0>>

\* the instant a GetStart or GetStartISO call returned, as GetStartISO
\* writes it
IsoOf(g) ==
    IF g.op = "GetStartISO" THEN g.val
    ELSE IF g.val = Nil THEN "" ELSE FormatISO(g.val[1])

\* the last call on the value was a GetStartISO that found a relative age in
\* Start and no resolved start
ResolvedByISO ==
    got.op = "GetStartISO" /\ got.fresh /\ ParseDuration(got.expr).ok

\* C24: GetStartISO takes part in the memoization: for a value whose Start is
\* a relative age and whose start is not yet resolved, GetStartISO followed,
\* with the clock advanced in between, by GetStartISO or GetStart on the same
\* value yields the same instant: the instant the first call resolved is the
\* one cached on the value.
C24_ISOMemoized ==
    [][(ResolvedByISO /\ got'.op \in {"GetStartISO", "GetStart"}) =>
            IsoOf(got') = got.val]_vars

\* GetStartISO on a value with Start "1h", at clock 1: the caller's value
\* has no resolved start after the call
C24_FailingInput ==
    /\ ResolvedByISO /\ got.expr = "1h" /\ got.at = 1
    /\ got.val = "2024-01-01T00:00:00.000Z"
    /\ q.start = Nil

----------------------------------------------------------------------------
\* ---- paging through an OpenSearch index ----

\* the _source of a row: with or without the configured message field
Sources ==
    {[k \in {"message", "@timestamp", "level"} |->
        CASE k = "message"    -> Str("boot")
          [] k = "@timestamp" -> Str("2024-01-01T00:00:00Z")
          [] k = "level"      -> Str("info")],
     [k \in {"level"} |-> Str("info")]}

\* an index of n rows in strict sort order
Streams ==
    UNION {{[i \in 1..n |-> [ID |-> "r" \o ToString(i), Sort |-> SortOf(i),
                             Source |-> src[i]]] :
                src \in [1..n -> Sources]} : n \in 0..MaxRows}

InitSearch ==
    /\ stream \in Streams
    /\ \E limit \in -1..MaxLimit :
            q = NewParams(limit, "", EmptyMap, "", "", "", <<>>, 0, 0)
    /\ q0 = q /\ pc = "call"
    /\ result = NoResult /\ hits = <<>> /\ delivered = <<>>
    /\ RouteIdle /\ ParamsIdle /\ ProcessIdle /\ LaterIdle

RECURSIVE Ids(_)
Ids(results) ==
    IF results = <<>> THEN <<>> ELSE <<Head(results).Id>> \o Ids(Tail(results))

\* the caller runs Search(q): the index is asked for q.Limit+1 rows after
\* q.Page and the response is normalised; a panic ends the caller
CallSearch ==
    /\ pc = "call"
    /\ LET rows == Backend(stream, q.Page, q.Limit + 1)
           out  == SearchOutcome(q, rows, Len(stream))
       IN  /\ hits' = rows
           /\ result' = out
           /\ delivered' = delivered \o Ids(out.Results)
           /\ pc' = IF out.status = "panic" THEN "crashed" ELSE "got"
    /\ UNCHANGED <<routes, q, ret, q0, calls, now, got, first, nowReads,
                   stream, r, r0,
                   adapterVars, routerVars, registryVars>>

\* the caller passes nextPage back verbatim as page for the next call
FollowNextPage ==
    /\ pc = "got" /\ result.NextPage # ""
    /\ q' = [q EXCEPT !.Page = result.NextPage]
    /\ pc' = "call"
    /\ UNCHANGED <<routes, ret, q0, calls, now, got, first, nowReads,
                   stream, result, hits, delivered, r, r0,
                   adapterVars, routerVars, registryVars>>

\* the caller sees an empty nextPage and stops
EndOfResults ==
    /\ pc = "got" /\ result.NextPage = ""
    /\ pc' = "done"
    /\ UNCHANGED <<routes, q, ret, q0, calls, now, got, first, nowReads,
                   stream, result, hits, delivered, r, r0,
                   adapterVars, routerVars, registryVars>>

NextSearch == CallSearch \/ FollowNextPage \/ EndOfResults

SpecSearch == InitSearch /\ [][NextSearch]_vars

\* the paging caller keeps going: it is a loop with nothing to wait for
FairSpecSearch == SpecSearch /\ WF_vars(NextSearch)

\* ---- paging: properties ----

HasMessage(row) == "message" \in DOMAIN row.Source

RECURSIVE RowIds(_)
RowIds(rows) ==
    IF rows = <<>> THEN <<>> ELSE <<Head(rows).ID>> \o RowIds(Tail(rows))

FullPage == pc = "got" /\ q.Limit >= 1 /\ Len(hits) = q.Limit + 1

\* C7 as stated: when the index returns exactly limit+1 rows, the caller gets
\* exactly limit rows, the first limit rows in index order, and nextPage is
\* the non-empty stringified sort key of the discarded (limit+1)-th row.
C7_AsStated ==
    FullPage =>
        /\ Len(result.Results) = q.Limit
        /\ Ids(result.Results) = RowIds(SubSeq(hits, 1, q.Limit))
        /\ result.NextPage # ""
        /\ result.NextPage = stringify(hits[q.Limit + 1].Sort)

\* C7 amended: when the index returns exactly limit+1 rows (limit >= 1), the
\* caller gets the first limit rows in index order, less those without the
\* message field (so exactly limit rows when all of them have it), and
\* nextPage is the non-empty stringified sort key of the limit-th row, the
\* last row kept, not of the discarded (limit+1)-th row.
C7_FullPage ==
    FullPage =>
        /\ result.status = "ok"
        /\ Ids(result.Results) =
                RowIds(SelectSeq(SubSeq(hits, 1, q.Limit), HasMessage))
        /\ (\A i \in 1..q.Limit : HasMessage(hits[i])) =>
                Len(result.Results) = q.Limit
        /\ result.NextPage # ""
        /\ result.NextPage = stringify(hits[q.Limit].Sort)
        /\ result.NextPage # stringify(hits[q.Limit + 1].Sort)

C7_Witness ==
    /\ FullPage /\ q.Limit = 1 /\ q.Page = "[3]"
    /\ RowIds(hits) = <<"r2", "r3">> /\ HasMessage(hits[1])
    /\ Ids(result.Results) = <<"r2">>
    /\ result.NextPage = "[5]"

LastPage == pc \in {"got", "done"} /\ Len(hits) <= q.Limit

\* C8 as stated: when the index returns limit or fewer rows, nextPage is
\* empty and every returned row is passed to the caller.
C8_AsStated ==
    LastPage =>
        /\ result.NextPage = ""
        /\ Ids(result.Results) = RowIds(hits)

\* C8 amended: when the index returns limit or fewer rows, nextPage is empty
\* and every returned row that has the message field is passed to the
\* caller, in index order (none is truncated away; rows without the message
\* field are dropped).
C8_LastPage ==
    LastPage =>
        /\ result.status = "ok"
        /\ result.NextPage = ""
        /\ Ids(result.Results) = RowIds(SelectSeq(hits, HasMessage))

C8_Witness ==
    /\ LastPage /\ q.Limit = 2 /\ Len(hits) = 2 /\ q.Page # ""
    /\ Len(result.Results) = 2 /\ result.NextPage = ""

\* C9 as stated: a traversal that ends has delivered every row of the index
\* exactly once, in index order.
C9_AsStated ==
    pc = "done" => delivered = RowIds(stream)

IsPrefix(a, b) == Len(a) <= Len(b) /\ SubSeq(b, 1, Len(a)) = a

\* C9 amended: following nextPage verbatim delivers the rows that have the
\* message field, each exactly once, in index order, none skipped and none
\* repeated across pages (rows without the message field are dropped); what
\* has been delivered is always an initial part of them, a traversal that
\* ends has delivered all of them, and for limit >= 1 the traversal does end,
\* with an empty nextPage after the last row.
C9_Traversal ==
    /\ [](IsPrefix(delivered, RowIds(SelectSeq(stream, HasMessage))))
    /\ [](pc = "done" =>
            /\ result.NextPage = ""
            /\ delivered = RowIds(SelectSeq(stream, HasMessage)))
    /\ [](q.Limit >= 1 => <>(pc = "done"))

C9_Witness ==
    /\ pc = "done" /\ Len(stream) = 4 /\ q.Limit = 1
    /\ \A i \in 1..4 : HasMessage(stream[i])
    /\ delivered = <<"r1", "r2", "r3", "r4">>

\* the response holds a hit without the configured message field
HitWithoutMessage == \E i \in 1..Len(hits) : ~HasMessage(hits[i])

\* C13 as stated: when a hit of the response lacks the message field, Search
\* reports no error and returns every other hit of the response, in backend
\* order.
C13_AsStated ==
    HitWithoutMessage =>
        /\ result.status = "ok"
        /\ Ids(result.Results) = RowIds(SelectSeq(hits, HasMessage))

\* C13 amended: when a hit of the response lacks the message field
\* (limit >= 1), Search reports no error, drops that hit and returns every
\* other hit among the first limit rows of the response, in backend order;
\* the over-fetched (limit+1)-th row is never returned, whether or not it
\* has the message field.
C13_Dropped ==
    (HitWithoutMessage /\ q.Limit >= 1) =>
        LET n == IF Len(hits) > q.Limit THEN q.Limit ELSE Len(hits) IN
        /\ result.status = "ok" /\ pc # "crashed"
        /\ Ids(result.Results) = RowIds(SelectSeq(SubSeq(hits, 1, n), HasMessage))
        /\ \A i \in 1..Len(hits) :
                ~HasMessage(hits[i]) =>
                    \A k \in 1..Len(result.Results) :
                        result.Results[k].Id # hits[i].ID

C13_Witness ==
    /\ pc = "got" /\ q.Limit = 2 /\ Len(hits) = 3
    /\ ~HasMessage(hits[1]) /\ HasMessage(hits[2]) /\ HasMessage(hits[3])
    /\ result.status = "ok"
    /\ Ids(result.Results) = <<hits[2].ID>>

\* C21: no adapter operation panics: for every limit of the query (0 and
\* negative values included, as when the defaults were not applied) and every
\* number of rows the backend returns, Search of the OpenSearch adapter comes
\* back with a result or an error value and never aborts through an
\* out-of-range slice or index in row truncation or cursor computation.
C21_NoPanic ==
    /\ pc # "crashed"
    /\ result.status # "panic"

\* limit 0 over an index that has a row: one row is asked for and comes
\* back, and the cursor is taken from rows[len(rows)-2] = rows[-1]
C21_FailingInput ==
    /\ pc = "crashed" /\ q.Limit = 0 /\ Len(hits) = 1
    /\ ~getResultsFromHits(q.Limit, hits).panic
    /\ getNextPage(q.Limit, hits).panic

\* limit -1: no row is asked for, and rows[:requestedRowsCount] = rows[:-1]
\* is taken of the empty response
C21_NegativeLimit ==
    /\ pc = "crashed" /\ q.Limit = -1 /\ hits = <<>>
    /\ getResultsFromHits(q.Limit, hits).panic

----------------------------------------------------------------------------
\* ---- building the label map of a hit ----

MaxExclusions == 2  \* longest exclusion list of an adapter

\* the fields a _source document may carry (containers are never empty)
SourceFields ==
    [k \in {"message", "@timestamp", "level", "secret", "a", "tags", "k"} |->
        CASE k = "message"    -> Str("boot")
          [] k = "@timestamp" -> Str("2024-01-01T00:00:00Z")
          [] k = "level"      -> Str("info")
          [] k = "secret"     -> Str("x")
          [] k = "a"          -> Obj([j \in {"b"} |-> Num(1)])
          [] k = "tags"       -> Arr(<<Str("x"), Num(2)>>)
          [] k = "k"          -> Obj([j \in {"message"} |-> Str("m")])]

\* field names an operator may list under exclusions; a nested field is
\* named by its dotted path
ExclusionNames == {"secret", "level", "a.b"}

InitLabels ==
    /\ \E keys \in SUBSET DOMAIN SourceFields :
            source = [k \in keys |-> SourceFields[k]]
    /\ exclusions \in SeqsUpTo(ExclusionNames, MaxExclusions)
    /\ emitted = EmptyMap /\ pc = "hit"
    /\ adapter = "" /\ body = EmptyMap /\ answer = NoAnswer
    /\ q = ZeroParams /\ q0 = q
    /\ RouteIdle /\ ParamsIdle /\ SearchIdle /\ ProcessIdle
    /\ RouterIdle /\ RegistryIdle

\* getResultsFromHits builds the labels of a hit
CallExtractLabels ==
    /\ pc = "hit"
    /\ emitted' = extractLabelsFromSource(source, exclusions)
    /\ pc' = "labelled"
    /\ UNCHANGED <<coreVars, source, exclusions, adapter, body, answer,
                   routerVars, registryVars>>

NextLabels == CallExtractLabels

SpecLabels == InitLabels /\ [][NextLabels]_vars

\* ---- labels: properties ----

\* C14: the label map holds the source fields other than the message field,
\* the timestamp field and the excluded fields, flattened to dot-joined keys
\* with stringified values: no label key is the message field name, the
\* timestamp field name or an excluded field name, every value is the text
\* of a scalar, and {"a":{"b":1}} without exclusions gives {"a.b":"1"}.
C14_Labels ==
    pc = "labelled" =>
        /\ \A k \in DOMAIN emitted :
                /\ k # Fields.Message /\ k # Fields.Timestamp
                /\ ~Contains(exclusions, k)
                /\ emitted[k] \in {"info", "x", "1", "2", "m"}
        /\ (DOMAIN source = {"a"} /\ exclusions = <<>>) =>
                emitted = [k \in {"a.b"} |-> "1"]

\* the excluded name "a.b" is the dotted path of a nested field
C14_FailingInput ==
    /\ pc = "labelled"
    /\ source = [k \in {"message", "a"} |-> SourceFields[k]]
    /\ exclusions = <<"a.b">>
    /\ emitted = [k \in {"a.b"} |-> "1"]

----------------------------------------------------------------------------
\* ---- answering from a backend response ----

\* the i-th well-formed entry of a hits array
Hit(i) ==
    Obj([k \in {"_id", "_index", "sort", "_source"} |->
            CASE k = "_id"     -> Str("r" \o ToString(i))
              [] k = "_index"  -> Str("logs")
              [] k = "sort"    -> SortOf(i)
              [] k = "_source" -> Obj([j \in {"message"} |-> Str("boot")])])

\* hits arrays: each entry well-formed, or a string where a hit should be
HitArrays ==
    UNION {{Arr([i \in 1..n |-> IF good[i] THEN Hit(i) ELSE Str("junk")]) :
                good \in [1..n -> BOOLEAN]} : n \in 0..MaxHits}

\* the total member of the hits section: absent, the object of current
\* servers, a bare number (older servers), or an object of another make
TotalShapes ==
    {<<>>,
     <<Obj([k \in {"value"} |-> Num(3)])>>,
     <<Num(3)>>,
     <<Obj([k \in {"value"} |-> Str("3")])>>,
     <<Obj(EmptyMap)>>}

\* the hits member of the hits section: absent, an array, or a string
HitsShapes == {<<>>, <<Str("none")>>} \cup {<<a>> : a \in HitArrays}

\* a section, from what is there of its two members
Section(total, list) ==
    LET keys == (IF total = <<>> THEN {} ELSE {"total"})
                \cup (IF list = <<>> THEN {} ELSE {"hits"})
    IN  Obj([k \in keys |-> IF k = "total" THEN total[1] ELSE list[1]])

\* response documents: without a hits section, with a string for it, or
\* with a section
Bodies ==
    {EmptyMap, [k \in {"hits"} |-> Str("none")]}
    \cup {[k \in {"hits"} |-> Section(total, list)] :
                total \in TotalShapes, list \in HitsShapes}

InitShape ==
    /\ adapter \in {"elasticsearch", "opensearch"}
    /\ body \in Bodies
    /\ answer = NoAnswer /\ pc = "response"
    /\ q = NewParams(1, "", EmptyMap, "", "", "", <<>>, 0, 0) /\ q0 = q
    /\ source = EmptyMap /\ exclusions = <<"secret">> /\ emitted = EmptyMap
    /\ RouteIdle /\ ParamsIdle /\ SearchIdle /\ ProcessIdle
    /\ RouterIdle /\ RegistryIdle

\* the adapter's Search gets the response and returns
CallAdapterSearch ==
    /\ pc = "response"
    /\ answer' = IF adapter = "opensearch" THEN OpenSearchSearch(q, body)
                 ELSE ElasticSearchSearch(body)
    /\ pc' = "answered"
    /\ UNCHANGED <<coreVars, source, exclusions, emitted, adapter, body,
                   routerVars, registryVars>>

NextShape == CallAdapterSearch

SpecShape == InitShape /\ [][NextShape]_vars

\* ---- response shapes: properties ----

\* the hits section is there and is an object
HasSection == "hits" \in DOMAIN body /\ body["hits"].t = "object"

\* the total of the response is missing or not {"value": number}
TotalMalformed ==
    \/ ~HasSection
    \/ LET total == Get(body["hits"].v, "total") IN
            total.t # "object" \/ Get(total.v, "value").t # "number"

\* the hit list of the response is missing or not an array
HitsMalformed ==
    ~HasSection \/ Get(body["hits"].v, "hits").t # "array"

\* C15: for both adapters, a response whose total or hits is missing or has
\* an unexpected shape never makes Search fail: Search succeeds, with total
\* 0 for a malformed total, and with no results and an empty nextPage for a
\* malformed hit list.
C15_Tolerant ==
    (pc = "answered" /\ (TotalMalformed \/ HitsMalformed)) =>
        /\ answer.err = ""
        /\ TotalMalformed => answer.Total = 0
        /\ HitsMalformed => answer.Results = <<>> /\ answer.NextPage = ""

\* the OpenSearch adapter given a total that is a bare number
C15_FailingInput ==
    /\ pc = "answered" /\ adapter = "opensearch"
    /\ body = [k \in {"hits"} |-> Section(<<Num(3)>>, <<Arr(<<Hit(1)>>)>>)]
    /\ answer.err = "error parsing the response body"

----------------------------------------------------------------------------
\* ---- merging per-backend results ----

\* what one backend may have answered: its results by id, its total and its
\* cursor
PartChoices ==
    [Results : {<<>>, <<"a1">>, <<"b2", "b1">>}, Total : {0, 2},
     NextPage : {"", "[3]", "[5]"}]

InitMerge ==
    /\ parts \in SeqsUpTo(PartChoices, MaxParts)
    /\ merged = ZeroSearchResults /\ appended = 0 /\ pc = "merging"
    /\ q = ZeroParams /\ q0 = q
    /\ RouteIdle /\ ParamsIdle /\ SearchIdle /\ ProcessIdle
    /\ AdapterIdle /\ RegistryIdle

\* the router appends the answer of the next candidate backend
CallAppend ==
    /\ pc = "merging" /\ appended < Len(parts)
    /\ merged' = SearchResultsAppend(merged, parts[appended + 1])
    /\ appended' = appended + 1
    /\ UNCHANGED <<coreVars, pc, adapterVars, parts, registryVars>>

NextMerge == CallAppend

SpecMerge == InitMerge /\ [][NextMerge]_vars

\* ---- merging: properties ----

RECURSIVE ConcatResults(_)
ConcatResults(list) ==
    IF list = <<>> THEN <<>>
    ELSE Head(list).Results \o ConcatResults(Tail(list))

RECURSIVE SumTotals(_)
SumTotals(list) ==
    IF list = <<>> THEN 0 ELSE Head(list).Total + SumTotals(Tail(list))

\* the last nextPage of the list that is not empty; empty if there is none
RECURSIVE LastNonEmptyNextPage(_)
LastNonEmptyNextPage(list) ==
    IF list = <<>> THEN ""
    ELSE IF list[Len(list)].NextPage # "" THEN list[Len(list)].NextPage
    ELSE LastNonEmptyNextPage(SubSeq(list, 1, Len(list) - 1))

\* C19: after the results of the first backends have been appended in
\* candidate order, the merged results are their results concatenated in
\* that order, the merged total is the sum of their totals, and the merged
\* nextPage is the last non-empty nextPage among them: a later backend
\* with an empty nextPage does not erase an earlier non-empty one.
C19_Merge ==
    LET done == SubSeq(parts, 1, appended) IN
    /\ merged.Results = ConcatResults(done)
    /\ merged.Total = SumTotals(done)
    /\ merged.NextPage = LastNonEmptyNextPage(done)

\* a backend with a cursor followed by a backend without one
C19_FailingInput ==
    /\ appended = 2
    /\ parts[1].NextPage = "[3]" /\ parts[2].NextPage = ""
    /\ merged.NextPage = ""

----------------------------------------------------------------------------
\* ---- reconciling APMHubConfig objects into the registry ----

MaxConfigs == 2     \* number of APMHubConfig objects

\* backend configurations: two that construct, one that does not
ConfigKinds == {"A", "B", "bad"}

\* the SearchBackendCRD values of config.Spec.Backends
CRDs == [Config : ConfigKinds]

\* an APMHubConfig: created, then reconciled (it carries the finalizer),
\* then deleted
NewConfigs ==
    [1..MaxConfigs -> [Backends : SeqsUpTo(CRDs, MaxBackends),
                       phase : {"created"}]]

\* the elements of logs.GlobalBackends
Registry == Elems(heap, GlobalBackends)

InitRegistry ==
    /\ configs \in NewConfigs
    /\ heap = <<>> /\ GlobalBackends = NilSlice
    /\ adapters = 0 /\ events = 0 /\ rc = NoCall /\ rd = NoCall
    /\ past = {} /\ searchConfig = <<>> /\ loaded = NoCall
    /\ pc = "idle"
    /\ q = ZeroParams /\ q0 = q
    /\ RouteIdle /\ ParamsIdle /\ SearchIdle /\ ProcessIdle
    /\ AdapterIdle /\ RouterIdle

\* Reconcile of a config that is not being deleted: the finalizer is added
\* and every backend that constructs is appended to GlobalBackends
ReconcileLive(c) ==
    /\ pc = "idle" /\ events < MaxEvents
    /\ configs[c].phase \in {"created", "reconciled"}
    /\ LET F == AddRun(AddBegin(heap, GlobalBackends, adapters,
                                configs[c].Backends),
                       configs[c].Backends)
       IN  /\ heap' = F.heap /\ GlobalBackends' = F.gbs
           /\ adapters' = F.adapters
    /\ configs' = [configs EXCEPT ![c].phase = "reconciled"]
    /\ rc' = [op |-> "add", cfg |-> c, before |-> Registry,
              status |-> "done"]
    /\ events' = events + 1
    /\ UNCHANGED <<coreVars, pc, adapterVars, routerVars, rd, past,
                   searchConfig, loaded>>

\* Reconcile of a config with a deletion timestamp: its backends are taken
\* out of GlobalBackends and the finalizer is removed; a panic ends the
\* reconciler where it is
ReconcileDeleted(c) ==
    /\ pc = "idle" /\ events < MaxEvents
    /\ configs[c].phase = "reconciled"
    /\ LET F == removeBackendFromGlobalBackends(heap, GlobalBackends,
                                                configs[c].Backends)
       IN  /\ heap' = F.heap /\ GlobalBackends' = F.gbs
           /\ rc' = [op |-> "remove", cfg |-> c, before |-> Registry,
                     status |-> F.status]
           /\ pc' = IF F.status = "panic" THEN "panicked" ELSE "idle"
           /\ configs' = [configs EXCEPT ![c].phase =
                            IF F.status = "panic" THEN "deleting"
                            ELSE "deleted"]
    /\ events' = events + 1
    /\ UNCHANGED <<coreVars, adapterVars, routerVars, adapters, rd, past,
                   searchConfig, loaded>>

\* Reconcile of a config that was deleted before it got the finalizer: the
\* object is not found and nothing is done
ReconcileNotFound(c) ==
    /\ pc = "idle" /\ events < MaxEvents
    /\ configs[c].phase = "created"
    /\ configs' = [configs EXCEPT ![c].phase = "deleted"]
    /\ rc' = [op |-> "none", cfg |-> c, before |-> Registry,
              status |-> "done"]
    /\ events' = events + 1
    /\ UNCHANGED <<coreVars, pc, adapterVars, routerVars, heap,
                   GlobalBackends, adapters, rd, past, searchConfig, loaded>>

NextRegistry ==
    \E c \in 1..MaxConfigs :
        ReconcileLive(c) \/ ReconcileDeleted(c) \/ ReconcileNotFound(c)

SpecRegistry == InitRegistry /\ [][NextRegistry]_vars

\* ---- registry: properties ----

\* how many elements of list have the hash of v
CountHash(list, v) ==
    Cardinality({k \in 1..Len(list) : Hash(list[k]) = Hash(v)})

\* C16: removal is keyed by content hash: when the registry holds two
\* entries of identical configuration and removal is called with a list
\* that has that configuration once, the call removes both and no entry
\* with that hash is left.
C16_HashKeyed ==
    rc.op = "remove" =>
        \A b \in CRDs :
            (CountHash(rc.before, b) = 2
             /\ CountHash(configs[rc.cfg].Backends, b) = 1) =>
                rc.status = "done" /\ CountHash(Registry, b) = 0

\* two registrations of A, removal of <<A>>: the call panics at the second
C16_FailingInput ==
    /\ rc.op = "remove" /\ rc.status = "panic"
    /\ Len(rc.before) = 2
    /\ rc.before[1].Config = "A" /\ rc.before[2].Config = "A"
    /\ configs[rc.cfg].Backends = <<[Config |-> "A"]>>
    /\ Len(Registry) = 1 /\ Registry[1].Config = "A"

\* whether the backend b of a config gets its adapter
Constructs(b) == ~AttachSearchAPIToBackend(ToSearchBackend(b), 1).err

\* the hashes of the backends (those that construct) of the configs that
\* are desired: reconciled and not deleted
DesiredHashes ==
    UNION {{Hash(ToSearchBackend(configs[c].Backends[k])) :
                k \in {m \in 1..Len(configs[c].Backends) :
                            Constructs(configs[c].Backends[m])}} :
            c \in {d \in 1..MaxConfigs : configs[d].phase = "reconciled"}}

RegistryHashes == {Hash(Registry[k]) : k \in 1..Len(Registry)}

\* C18: after any sequence of reconcile requests, the hashes held in the
\* registry are the hashes of the backends of the desired configs; after a
\* config was reconciled any number of times and then deleted, no entry of
\* it is left.
C18_Converges ==
    /\ RegistryHashes = DesiredHashes
    /\ \A c \in 1..MaxConfigs :
            (configs[c].phase \in {"deleted", "deleting"}
             /\ \A d \in 1..MaxConfigs : d # c => configs[d].phase = "created") =>
                Registry = <<>>

\* A registered twice and B once, then the config of A deleted: no panic,
\* and one A stays
C18_FailingInput ==
    /\ pc = "idle" /\ rc.op = "remove" /\ rc.status = "done"
    /\ configs[rc.cfg].Backends = <<[Config |-> "A"]>>
    /\ Len(rc.before) = 3 /\ Len(Registry) = 2
    /\ Registry[1].Config = "A" /\ Registry[2].Config = "B"
    /\ DesiredHashes = {Hash([Config |-> "B"])}

\* whether the hash of the registered entry v is the hash of no entry of the
\* removal list
Unnamed(v, backends) ==
    \A k \in 1..Len(backends) : Hash(v) # Hash(backends[k])

\* the entries of list that the removal list does not name, in their order
Kept(list, backends) ==
    LET Keep(v) == Unnamed(v, backends) IN SelectSeq(list, Keep)

\* C22: registry removal changes nothing else: for every registry content and
\* every removal list (lists naming a configuration more than once included),
\* each registered entry whose hash matches no entry of the removal list is
\* in the registry afterwards, as often as before and in the same relative
\* order.
C22_Frame ==
    rc.op = "remove" =>
        Kept(Registry, configs[rc.cfg].Backends)
            = Kept(rc.before, configs[rc.cfg].Backends)

\* [A, A] reconciled twice and [B] once, then [A, A] removed: at i=1 the
\* second match of the same element takes B out
C22_FailingInput ==
    /\ rc.op = "remove" /\ rc.status = "done"
    /\ configs[rc.cfg].Backends = <<[Config |-> "A"], [Config |-> "A"]>>
    /\ Len(rc.before) = 5 /\ rc.before[5].Config = "B"
    /\ Len(Registry) = 1 /\ Registry[1].Config = "A"

\* C23: removeBackendFromGlobalBackends completes without a run-time panic
\* for every registry content and every removal list: no index used to slice
\* GlobalBackends exceeds its current length, also when two or more
\* registered entries match the list or the last entry matches after an
\* earlier removal.
C23_NoPanic ==
    /\ pc # "panicked"
    /\ rc.op = "remove" => rc.status = "done"

\* [A, B] reconciled once and removed: A goes at i=0, and at i=1 the last
\* entry B matches when GlobalBackends has length 1
C23_FailingInput ==
    /\ pc = "panicked" /\ rc.op = "remove" /\ rc.status = "panic"
    /\ configs[rc.cfg].Backends = <<[Config |-> "A"], [Config |-> "B"]>>
    /\ Len(rc.before) = 2
    /\ rc.before[1].Config = "A" /\ rc.before[2].Config = "B"
    /\ Len(Registry) = 1 /\ Registry[1].Config = "B"

----------------------------------------------------------------------------
\* ---- reconciling while queries are dispatched ----

MaxRaceEvents == 2  \* most reconcile requests handled while queries run

InitRace ==
    /\ configs \in NewConfigs
    /\ heap = <<>> /\ GlobalBackends = NilSlice
    /\ adapters = 0 /\ events = 0 /\ rc = NoCall /\ rd = NoCall
    /\ past = {<<>>} /\ searchConfig = <<>> /\ loaded = NoCall
    /\ pc = "idle"
    /\ q = ZeroParams /\ q0 = q
    /\ RouteIdle /\ ParamsIdle /\ SearchIdle /\ ProcessIdle
    /\ AdapterIdle /\ RouterIdle

\* the reconciler (one worker) enters Reconcile for a config that is not
\* being deleted and reaches the loop over its backends
BeginReconcile(c) ==
    /\ pc = "idle" /\ events < MaxRaceEvents
    /\ configs[c].phase \in {"created", "reconciled"}
    /\ configs' = [configs EXCEPT ![c].phase = "reconciled"]
    /\ LET F == AddBegin(heap, GlobalBackends, adapters, configs[c].Backends)
       IN  /\ rc' = [op |-> "add", cfg |-> c, j |-> F.j]
           /\ pc' = IF F.status = "done" THEN "idle" ELSE "adding"
           /\ events' = IF F.status = "done" THEN events + 1 ELSE events
    /\ UNCHANGED <<coreVars, adapterVars, routerVars, heap, GlobalBackends,
                   adapters, rd, past, searchConfig, loaded>>

\* one iteration of the loop over the backends of the config
StepAdd ==
    /\ pc = "adding"
    /\ LET F == AddIter([heap |-> heap, gbs |-> GlobalBackends,
                         adapters |-> adapters, j |-> rc.j,
                         status |-> "run"],
                        configs[rc.cfg].Backends)
       IN  /\ heap' = F.heap /\ GlobalBackends' = F.gbs
           /\ adapters' = F.adapters
           /\ rc' = [rc EXCEPT !.j = F.j]
           /\ past' = past \cup {Elems(F.heap, F.gbs)}
           /\ pc' = IF F.status = "done" THEN "idle" ELSE "adding"
           /\ events' = IF F.status = "done" THEN events + 1 ELSE events
    /\ UNCHANGED <<coreVars, adapterVars, routerVars, configs, rd,
                   searchConfig, loaded>>

\* the locals of the removal loop, as held in rc
RemovalLocals(F, c) ==
    [op |-> "remove", cfg |-> c, i |-> F.i, j |-> F.j, n |-> F.n,
     arr |-> F.arr, gb |-> F.gb]

\* what ends with the removal loop: a panic ends the reconciler, otherwise
\* the finalizer is removed and the config is gone
AfterRemoval(F, c) ==
    /\ pc' = CASE F.status = "run"   -> "removing"
               [] F.status = "panic" -> "panicked"
               [] OTHER              -> "idle"
    /\ configs' = [configs EXCEPT ![c].phase =
                        IF F.status = "done" THEN "deleted" ELSE "deleting"]
    /\ events' = IF F.status = "run" THEN events ELSE events + 1

\* the reconciler enters Reconcile for a config with a deletion timestamp
\* and reaches the loops of removeBackendFromGlobalBackends
BeginDelete(c) ==
    /\ pc = "idle" /\ events < MaxRaceEvents
    /\ configs[c].phase = "reconciled"
    /\ LET F == RemoveBegin(heap, GlobalBackends, configs[c].Backends)
       IN  rc' = RemovalLocals(F, c) /\ AfterRemoval(F, c)
    /\ UNCHANGED <<coreVars, adapterVars, routerVars, heap, GlobalBackends,
                   adapters, rd, past, searchConfig, loaded>>

\* one iteration of the inner loop of removeBackendFromGlobalBackends
StepRemove ==
    /\ pc = "removing"
    /\ LET F == RemoveIter([heap |-> heap, gbs |-> GlobalBackends,
                            status |-> "run", i |-> rc.i, j |-> rc.j,
                            n |-> rc.n, arr |-> rc.arr, gb |-> rc.gb],
                           configs[rc.cfg].Backends)
       IN  /\ heap' = F.heap /\ GlobalBackends' = F.gbs
           /\ past' = past \cup {Elems(F.heap, F.gbs)}
           /\ rc' = RemovalLocals(F, rc.cfg) /\ AfterRemoval(F, rc.cfg)
    /\ UNCHANGED <<coreVars, adapterVars, routerVars, adapters, rd,
                   searchConfig, loaded>>

\* a query is dispatched: the router starts to range over GlobalBackends,
\* taking the slice header once
DispatchBegin ==
    /\ rd.op = "none"
    /\ rd' = [op |-> IF GlobalBackends.len = 0 THEN "done" ELSE "dispatch",
              arr |-> GlobalBackends.ptr, n |-> GlobalBackends.len,
              i |-> 0, seen |-> <<>>]
    /\ UNCHANGED <<coreVars, pc, adapterVars, routerVars, heap,
                   GlobalBackends, configs, adapters, events, rc, past,
                   searchConfig, loaded>>

\* the router reads the next candidate from the backing array
DispatchRead ==
    /\ rd.op = "dispatch"
    /\ rd' = [rd EXCEPT !.seen = rd.seen \o <<heap[rd.arr][rd.i + 1]>>,
                        !.i = rd.i + 1,
                        !.op = IF rd.i + 1 = rd.n THEN "done" ELSE "dispatch"]
    /\ UNCHANGED <<coreVars, pc, adapterVars, routerVars, heap,
                   GlobalBackends, configs, adapters, events, rc, past,
                   searchConfig, loaded>>

NextRace ==
    \/ \E c \in 1..MaxConfigs : BeginReconcile(c) \/ BeginDelete(c)
    \/ StepAdd \/ StepRemove
    \/ DispatchBegin \/ DispatchRead

SpecRace == InitRace /\ [][NextRace]_vars

\* ---- concurrency: properties ----

\* C17: accesses of GlobalBackends are mutually exclusive: no query
\* dispatch ranges over the registry while the removal loop is at work on
\* it, and no reader observes a partially updated list: the candidates a
\* dispatch has seen are a content the registry had at some moment.
C17_MutualExclusion ==
    /\ ~(rd.op = "dispatch" /\ pc = "removing")
    /\ rd.op = "done" => rd.seen \in past

\* a dispatch that started on [A, B] while A is being removed sees [B, B]
C17_TornRead ==
    /\ rd.op = "done" /\ Len(rd.seen) = 2
    /\ rd.seen[1].Config = "B" /\ rd.seen[2].Config = "B"
    /\ rd.seen \notin past

----------------------------------------------------------------------------
\* ---- loading the backends of the config file ----

\* elasticsearch: members of an entry: a good one, and one for each way
\* the construction fails
ElasticConfigs ==
    LET good == [Address |-> "http://es", CloudID |-> "", Ping |-> "200",
                 Query |-> "{}"]
    IN  {good,
         [good EXCEPT !.CloudID = "cid"],
         [good EXCEPT !.Address = ""],
         [good EXCEPT !.Address = "::"],
         [good EXCEPT !.Ping = "error"],
         [good EXCEPT !.Ping = "503"],
         [good EXCEPT !.Query = "{{"]}

\* the entries a config file may have under backends:
ConfigEntries ==
    [Backend : {"nil"},
     Kubernetes : {<<>>, <<[reachable |-> TRUE]>>, <<[reachable |-> FALSE]>>},
     Files : {<<>>, <<"app.log", "/var/log/syslog">>},
     ElasticSearch : {<<>>} \cup {<<c>> : c \in ElasticConfigs}]

InitLoad ==
    /\ searchConfig \in SeqsUpTo(ConfigEntries, MaxEntries)
    /\ loaded = NoCall /\ pc = "start"
    /\ heap = <<>> /\ GlobalBackends = NilSlice
    /\ configs = <<>> /\ adapters = 0 /\ events = 0
    /\ rc = NoCall /\ rd = NoCall /\ past = {}
    /\ q = ZeroParams /\ q0 = q
    /\ RouteIdle /\ ParamsIdle /\ SearchIdle /\ ProcessIdle
    /\ AdapterIdle /\ RouterIdle

\* the server starts and loads the backends of its config file
CallLoadBackendsFromConfig ==
    /\ pc = "start"
    /\ loaded' = [op |-> "load"] @@ LoadBackendsFromConfig(searchConfig)
    /\ pc' = "loaded"
    /\ UNCHANGED <<coreVars, adapterVars, routerVars, heap, GlobalBackends,
                   configs, adapters, events, rc, rd, past, searchConfig>>

NextLoad == CallLoadBackendsFromConfig

SpecLoad == InitLoad /\ [][NextLoad]_vars

\* ---- loading: properties ----

\* the backends LoadBackendsFromConfig returned
Available == {loaded.backends[k] : k \in 1..Len(loaded.backends)}

\* C20: an error in constructing the adapter of one backend affects only
\* that backend: the backends of every entry of the config file that
\* constructs without error are returned, and no backend whose adapter
\* failed to construct is.
C20_Isolated ==
    pc = "loaded" =>
        /\ \A k \in 1..Len(searchConfig) :
                EntryError(searchConfig[k]) = "" =>
                    \A i \in 1..Len(EntryBackends(searchConfig[k])) :
                        EntryBackends(searchConfig[k])[i] \in Available
        /\ \A b \in Available :
                EntryError([b EXCEPT !.Backend = "nil"]) = ""

\* a file backend followed by an Elasticsearch backend that does not answer
C20_FailingInput ==
    /\ pc = "loaded" /\ Len(searchConfig) = 2
    /\ searchConfig[1].Files # <<>> /\ EntryError(searchConfig[1]) = ""
    /\ EntryError(searchConfig[2]) = "error pinging the elastic search client"
    /\ loaded.backends = <<>> /\ loaded.err # ""

----------------------------------------------------------------------------
\* ---- processing a result ----

\* "2024-01-01T00:00:00Z", and its two halves
Stamp == <<"2", "0", "2", "4", "-", "0", "1", "-", "0", "1", "T",
           "0", "0", ":", "0", "0", ":", "0", "0", "Z">>
StampHead == SubSeq(Stamp, 1, 11)
StampTail == SubSeq(Stamp, 12, 20)

\* "2024-13-01T00:00:00Z": shaped like a timestamp, but no month 13
NoStamp == [Stamp EXCEPT ![6] = "1", ![7] = "3"]

\* what messages are put together from
Pieces == {Stamp, NoStamp, StampHead, StampTail, <<" ">>, <<"w">>}

RECURSIVE Concat(_)
Concat(list) == IF list = <<>> THEN <<>> ELSE Head(list) \o Concat(Tail(list))

InitProcess ==
    /\ \E list \in SeqsUpTo(Pieces, MaxPieces), time \in {<<>>, <<"o", "l", "d">>} :
            r = [Id |-> "1", Time |-> time, Message |-> Concat(list),
                 Labels |-> EmptyMap]
    /\ r0 = r /\ pc = "raw"
    /\ q = ZeroParams /\ q0 = q
    /\ RouteIdle /\ ParamsIdle /\ SearchIdle /\ LaterIdle

\* a backend passes a raw result through r.Process()
CallProcess ==
    /\ pc = "raw"
    /\ r' = Process(r)
    /\ pc' = "processed"
    /\ UNCHANGED <<routes, q, ret, q0, calls, now, got, first, nowReads,
                   stream, result, hits, delivered, r0,
                   adapterVars, routerVars, registryVars>>

NextProcess == CallProcess

SpecProcess == InitProcess /\ [][NextProcess]_vars

\* ---- processing: properties ----

\* the raw message starts (after whitespace) with a word that is a timestamp
LeadingStamp == FirstWord(r0.Message).ok /\ IsRFC3339(FirstWord(r0.Message).text)

\* number of places at which text old occurs in s
Occurrences(s, old) ==
    Cardinality({i \in 1..Len(s) :
                    i + Len(old) - 1 <= Len(s)
                    /\ SubSeq(s, i, i + Len(old) - 1) = old})

\* C10 as stated: when the first word of the message parses as RFC3339,
\* Process sets time to it and the message becomes the original with only
\* that leading occurrence removed, trimmed; later occurrences are kept.
C10_AsStated ==
    (pc = "processed" /\ LeadingStamp) =>
        LET word == FirstWord(r0.Message).text IN
        /\ r.Time = word
        /\ r.Message = TrimSpace(ReplaceFirst(r0.Message, word))

\* C10 amended: when the first word of the message parses as RFC3339,
\* Process sets time to it and the message becomes the original with every
\* occurrence of that word removed (not only the leading one), trimmed; when
\* the word occurs only at the front, that is the original without its
\* leading word, e.g. "2024-01-01T00:00:00Z w" gives time
\* "2024-01-01T00:00:00Z" and message "w".
C10_Extraction ==
    (pc = "processed" /\ LeadingStamp) =>
        LET word == FirstWord(r0.Message).text IN
        /\ r.Time = word
        /\ r.Message = TrimSpace(ReplaceAll(r0.Message, word))
        /\ Occurrences(r0.Message, word) = 1 =>
                r.Message = TrimSpace(ReplaceFirst(r0.Message, word))
        /\ r0.Message = Stamp \o <<" ", "w">> =>
                r.Time = Stamp /\ r.Message = <<"w">>
        /\ r.Id = r0.Id /\ r.Labels = r0.Labels

C10_Witness ==
    /\ pc = "processed"
    /\ r0.Message = Stamp \o <<" ", "w", " ">> \o Stamp
    /\ r.Time = Stamp /\ r.Message = <<"w">>

\* whether every character of s is whitespace
AllSpace(s) == \A i \in 1..Len(s) : IsSpace(s[i])

\* C11 as stated: when the message has no first word, or its first word does
\* not parse as RFC3339, Process leaves the message unmodified, character
\* for character, and time is empty afterwards.
C11_AsStated ==
    (pc = "processed" /\ ~LeadingStamp) =>
        r.Message = r0.Message /\ r.Time = <<>>

\* C11 amended: when the message has no first word, or its first word does
\* not parse as RFC3339, Process removes nothing but the whitespace around
\* the message (the message is what lies between its first and its last
\* non-blank character, and is untouched when it neither starts nor ends
\* with whitespace), and time, id and labels keep the values they had: time
\* is empty afterwards when it was empty before.
C11_NoExtraction ==
    (pc = "processed" /\ ~LeadingStamp) =>
        /\ \E i \in 1..(Len(r0.Message) + 1), j \in 0..Len(r0.Message) :
                /\ r.Message = SubSeq(r0.Message, i, j)
                /\ AllSpace(SubSeq(r0.Message, 1, i - 1))
                /\ AllSpace(SubSeq(r0.Message, j + 1, Len(r0.Message)))
        /\ r.Message # <<>> =>
                ~IsSpace(r.Message[1]) /\ ~IsSpace(r.Message[Len(r.Message)])
        /\ (r0.Message # <<>> /\ ~IsSpace(r0.Message[1])
                /\ ~IsSpace(r0.Message[Len(r0.Message)])) =>
                r.Message = r0.Message
        /\ r.Time = r0.Time
        /\ r0.Time = <<>> => r.Time = <<>>
        /\ r.Id = r0.Id /\ r.Labels = r0.Labels

C11_Witness ==
    /\ pc = "processed"
    /\ r0.Message = <<" ">> \o NoStamp \o <<" ", "w", " ">>
    /\ r0.Time = <<>>
    /\ r.Message = NoStamp \o <<" ", "w">> /\ r.Time = <<>>

\* C12: whenever Process extracts a leading timestamp (the first word of the
\* message parses as RFC3339), the returned message does not contain that
\* word anywhere.
C12_NoTokenLeft ==
    (pc = "processed" /\ LeadingStamp) =>
        Occurrences(r.Message, FirstWord(r0.Message).text) = 0

\* the message whose removal of the timestamp joins the two halves around it
C12_FailingInput ==
    /\ pc = "processed"
    /\ r0.Message = Stamp \o <<" ">> \o StampHead \o Stamp \o StampTail
    /\ r.Time = Stamp /\ r.Message = Stamp

====
